---- MODULE Spec2Model ----
(***************************************************************************)
(* RendaHomes on-chain ledgers: the HRM token (contracts/HRMToken.sol),    *)
(* its wrapper (contracts/WrappedHRM.sol), the property registry and its   *)
(* resale order book (contracts/PropertyToken.sol), the governance ledger  *)
(* (RendaGovernance), the disaster / insurance registry                    *)
(* (contracts/DisasterManagement.sol) and the deposit pool                 *)
(* (contracts/RealEstatePool.sol).                                         *)
(*                                                                         *)
(* Every public function is one action.  A call that reverts leaves the    *)
(* contract state as it was and is recorded in lastTx with ok = FALSE; a   *)
(* call that returns is recorded with ok = TRUE.  HRM amounts are uint256  *)
(* numbers of base units (10**18 to one HRM), kept exactly as sequences of *)
(* base-1000 digits; counts are integers and time is counted in days (the  *)
(* unit of `1 days`), block.timestamp moving by whole days.                *)
(* The inherited OpenZeppelin 4.x ERC20 / ERC20Burnable / Ownable /        *)
(* Pausable behaviour is modelled where the contracts expose or call it.   *)
(* Fields that no function reads and that carry opaque data (metadataURI,  *)
(* propertyType, riskLevel, descriptions, titles, evidence, the whitelist  *)
(* and propertyContracts maps, publicMintingEnabled) and the ERC721 side   *)
(* of the registry are left out.                                           *)
(***************************************************************************)
EXTENDS Integers, Sequences, FiniteSets, TLC

\* ------------------------------------------------------------ addresses
Admin == "admin"
Alice == "alice"
Bob == "bob"
Token == "HRMToken"
PT == "PropertyToken"
Gov == "RendaGovernance"
DM == "DisasterManagement"
Pool == "RealEstatePool"
WHRM == "WrappedHRM"
ZERO == "0x0"

Users == {Admin, Alice, Bob}
Contracts == {Token, PT, Gov, DM, Pool, WHRM}
Addresses == Users \cup Contracts

\* --------------------------------------------------- uint256 amounts
\* An amount is a uint256 number of base units, written in base 1000 with
\* the least significant digit first and no leading zero digit: <<>> is 0,
\* and six digits make 10**18, so <<0, 0, 0, 0, 0, 0, 5>> is 5 HRM.
\* Counts (tokens, ids, percentages, days) are plain integers.
Base == 1000

Zero == <<>>

RECURSIVE Wei(_)
Wei(n) == IF n = 0 THEN <<>> ELSE <<n % Base>> \o Wei(n \div Base)

\* n * 10**18
HRM(n) == IF n = 0 THEN <<>> ELSE <<0, 0, 0, 0, 0, 0>> \o Wei(n)

Digit(a, i) == IF i <= Len(a) THEN a[i] ELSE 0

\* The recursions are functions, so that every argument is a value.
Trim[a \in Seq(Nat)] ==
    IF a = <<>> THEN a
    ELSE IF a[Len(a)] = 0 THEN Trim[SubSeq(a, 1, Len(a) - 1)] ELSE a

AddFrom[a \in Seq(Nat), b \in Seq(Nat), i \in Nat, carry \in Nat] ==
    IF i > Len(a) /\ i > Len(b) THEN Wei(carry)
    ELSE LET s == Digit(a, i) + Digit(b, i) + carry
         IN <<s % Base>> \o AddFrom[a, b, i + 1, s \div Base]

Add(a, b) == AddFrom[a, b, 1, 0]

GeqFrom[a \in Seq(Nat), b \in Seq(Nat), i \in Nat] ==
    IF i = 0 THEN TRUE
    ELSE IF Digit(a, i) # Digit(b, i) THEN Digit(a, i) > Digit(b, i)
    ELSE GeqFrom[a, b, i - 1]

Geq(a, b) == GeqFrom[a, b, IF Len(a) > Len(b) THEN Len(a) ELSE Len(b)]

Gt(a, b) == Geq(a, b) /\ a # b

\* a - b; checked arithmetic reverts when b > a, which the callers'
\* requirements exclude: the value is then <<-1>>, no amount.
SubFrom[a \in Seq(Nat), b \in Seq(Nat), i \in Nat, borrow \in Nat] ==
    IF i > Len(a) THEN <<>>
    ELSE LET d == Digit(a, i) - Digit(b, i) - borrow
         IN IF d < 0 THEN <<d + Base>> \o SubFrom[a, b, i + 1, 1]
            ELSE <<d>> \o SubFrom[a, b, i + 1, 0]

Sub(a, b) == IF Geq(a, b) THEN Trim[SubFrom[a, b, 1, 0]] ELSE <<-1>>

\* a * k for a count k.
MulFrom[a \in Seq(Nat), k \in Nat, i \in Nat, carry \in Nat] ==
    IF i > Len(a) THEN Wei(carry)
    ELSE LET p == a[i] * k + carry
         IN <<p % Base>> \o MulFrom[a, k, i + 1, p \div Base]

Mul(a, k) == Trim[MulFrom[a, k, 1, 0]]

\* a / d rounded down, for a count d > 0: long division from the most
\* significant digit; i digits are still to be divided.
DivFrom[a \in Seq(Nat), d \in Nat, i \in Nat, rem \in Nat] ==
    IF i = 0 THEN <<>>
    ELSE LET cur == rem * Base + a[i]
         IN Append(DivFrom[a, d, i - 1, cur % d], cur \div d)

Div(a, d) == Trim[DivFrom[a, d, Len(a), 0]]

\* type(uint256).max = 2**256 - 1
MaxUint256 ==
    <<935, 639, 129, 913, 7, 584, 457, 39, 564, 640, 665, 984, 269, 853, 907,
      687, 8, 985, 570, 423, 195, 316, 237, 89, 792, 115>>

\* ------------------------------------------------- program constants
MAX_SUPPLY == HRM(1000000000)
INITIAL_SUPPLY == HRM(100000000)
PUBLIC_MINT_AMOUNT == HRM(5000)
MIN_INVESTMENT == HRM(100)
INITIAL_FEE_PERCENT == 250
MAX_FEE_PERCENT == 1000
FEE_DENOMINATOR == 10000
MAX_DURATION_DAYS == 90
VOTING_PERIOD == 7
MIN_VOTING_POWER == HRM(100)
QUORUM_PERCENTAGE == 20

\* ------------------------------------------------------------- bounds
MaxProperties == 1
MaxOrders == 2
MaxMinted == 2
MaxTime == 8
MaxProposals == 1
MaxReports == 1
MaxClaims == 1

VARIABLES
    balances, allowances, totalSupply, paused, lastMintTime,
    owner, wrappedBalances, wrappedAllowances, wrappedSupply,
    propertyCount, properties, investments, propertyInvestors,
    investorProperties, platformFeePercent, feeRecipient,
    sellOrders, sellOrderCounter,
    proposalCount, proposals, votes,
    disasterReportCount, disasterReports, insuranceClaimCount,
    insuranceClaims, insuranceFund, authorizedReporters,
    poolInfo, userInfo,
    now, lastTx

tokenVars == <<balances, allowances, totalSupply, paused, lastMintTime>>
sideVars == <<owner, wrappedBalances, wrappedAllowances, wrappedSupply>>
registryVars == <<propertyCount, properties, investments, propertyInvestors,
    investorProperties, platformFeePercent, feeRecipient>>
orderVars == <<sellOrders, sellOrderCounter>>
govVars == <<proposalCount, proposals, votes>>
disasterVars == <<disasterReportCount, disasterReports, insuranceClaimCount,
    insuranceClaims, insuranceFund, authorizedReporters>>
poolVars == <<poolInfo, userInfo>>
vars == <<tokenVars, sideVars, registryVars, orderVars, govVars, disasterVars,
    poolVars, now, lastTx>>

PropertyIds == 0 .. (MaxProperties - 1)
OrderIds == 0 .. (MaxOrders - 1)
ProposalIds == 1 .. MaxProposals
ReportIds == 1 .. MaxReports
ClaimIds == 1 .. MaxClaims

\* The sum of the amounts f holds for the members of S.
RECURSIVE SumOver(_, _)
SumOver(f, S) ==
    IF S = {} THEN Zero
    ELSE LET x == CHOOSE y \in S : TRUE IN Add(f[x], SumOver(f, S \ {x}))

SumBalances == SumOver(balances, Addresses)

\* The receipt of the latest transaction.  A reverted call keeps only the
\* name of the function called.
Tx(op, caller, args, ok) ==
    IF ok THEN [op |-> op, caller |-> caller, args |-> args, ok |-> TRUE]
    ELSE [op |-> op, caller |-> ZERO, args |-> <<>>, ok |-> FALSE]

\* ------------------------------------------------------------- Ownable
\* Each contract is Ownable and has an owner of its own.
OnlyOwner(this, caller) == caller = owner[this]

transferOwnership(this, caller, newOwner) ==
    LET ok == OnlyOwner(this, caller) /\ newOwner # ZERO IN
    /\ lastTx' = Tx("transferOwnership", caller, <<this, newOwner>>, ok)
    /\ owner' = IF ok THEN [owner EXCEPT ![this] = newOwner] ELSE owner
    /\ UNCHANGED <<wrappedBalances, wrappedAllowances, wrappedSupply, poolVars, tokenVars,
                   registryVars, orderVars, govVars, disasterVars, now>>

renounceOwnership(this, caller) ==
    LET ok == OnlyOwner(this, caller) IN
    /\ lastTx' = Tx("renounceOwnership", caller, <<this>>, ok)
    /\ owner' = IF ok THEN [owner EXCEPT ![this] = ZERO] ELSE owner
    /\ UNCHANGED <<wrappedBalances, wrappedAllowances, wrappedSupply, poolVars, tokenVars,
                   registryVars, orderVars, govVars, disasterVars, now>>

\* ------------------------------------------------------------ HRMToken
WhenNotPaused == ~paused

\* Variant of WithinCap: a token with no cap.
NoCap(amount) == TRUE

WithinCap(amount) == Geq(MAX_SUPPLY, Add(totalSupply, amount))

\* Variant of Move: a transfer that credits without debiting.
CreditOnly(bal, from, to, amount) == [bal EXCEPT ![to] = Add(@, amount)]

\* ERC20._transfer on a balance map: debit one account, credit another.
Move(bal, from, to, amount) ==
    IF from = to THEN bal
    ELSE [bal EXCEPT ![from] = Sub(@, amount), ![to] = Add(@, amount)]

\* ERC20._transfer's requirements (the recipient, the hook, the balance).
CanTransfer(bal, from, to, amount) ==
    to # ZERO /\ WhenNotPaused /\ Geq(bal[from], amount)

\* Variant of CanSpend: a token that ignores allowances.
AnyAllowance(holder, spender, amount) == TRUE

\* ERC20._spendAllowance's requirement.
CanSpend(holder, spender, amount) == Geq(allowances[holder][spender], amount)

\* ERC20._spendAllowance: an allowance of type(uint256).max is not used up.
SpendAllowance(holder, spender, amount) ==
    IF allowances[holder][spender] = MaxUint256 THEN allowances
    ELSE [allowances EXCEPT ![holder][spender] = Sub(@, amount)]

\* ERC20._mint's requirements after the cap (the account, the hook).
MintOk(to, amount) == WithinCap(amount) /\ to # ZERO /\ WhenNotPaused

DoMint(to, amount) ==
    /\ totalSupply' = Add(totalSupply, amount)
    /\ balances' = [balances EXCEPT ![to] = Add(@, amount)]

mint(caller, to, amount) ==
    LET ok == MintOk(to, amount) IN
    /\ lastTx' = Tx("mint", caller, <<to, amount>>, ok)
    /\ IF ok THEN DoMint(to, amount) ELSE UNCHANGED <<totalSupply, balances>>
    /\ UNCHANGED <<sideVars, poolVars, allowances, paused, lastMintTime, registryVars,
                   orderVars, govVars, disasterVars, now>>

MintAndStamp(op, caller, to, amount, ok) ==
    /\ lastTx' = Tx(op, caller, <<to, amount>>, ok)
    /\ IF ok
       THEN /\ DoMint(to, amount)
            /\ lastMintTime' = [lastMintTime EXCEPT ![to] = now]
       ELSE UNCHANGED <<totalSupply, balances, lastMintTime>>
    /\ UNCHANGED <<sideVars, poolVars, allowances, paused, registryVars, orderVars,
                   govVars, disasterVars, now>>

publicMint(caller) ==
    MintAndStamp("publicMint", caller, caller, PUBLIC_MINT_AMOUNT,
                 MintOk(caller, PUBLIC_MINT_AMOUNT))

publicMintTo(caller, to) ==
    MintAndStamp("publicMintTo", caller, to, PUBLIC_MINT_AMOUNT,
                 to # ZERO /\ MintOk(to, PUBLIC_MINT_AMOUNT))

mintAmount(caller, amount) ==
    MintAndStamp("mintAmount", caller, caller, amount,
                 amount # Zero /\ MintOk(caller, amount))

mintAmountTo(caller, to, amount) ==
    MintAndStamp("mintAmountTo", caller, to, amount,
                 to # ZERO /\ amount # Zero /\ MintOk(to, amount))

BurnOk(from, amount) == WhenNotPaused /\ Geq(balances[from], amount)

burn(caller, amount) ==
    LET ok == BurnOk(caller, amount) IN
    /\ lastTx' = Tx("burn", caller, <<amount>>, ok)
    /\ IF ok
       THEN /\ totalSupply' = Sub(totalSupply, amount)
            /\ balances' = [balances EXCEPT ![caller] = Sub(@, amount)]
       ELSE UNCHANGED <<totalSupply, balances>>
    /\ UNCHANGED <<sideVars, poolVars, allowances, paused, lastMintTime, registryVars,
                   orderVars, govVars, disasterVars, now>>

burnFrom(caller, account, amount) ==
    LET ok == CanSpend(account, caller, amount) /\ BurnOk(account, amount) IN
    /\ lastTx' = Tx("burnFrom", caller, <<account, amount>>, ok)
    /\ IF ok
       THEN /\ totalSupply' = Sub(totalSupply, amount)
            /\ balances' = [balances EXCEPT ![account] = Sub(@, amount)]
            /\ allowances' = SpendAllowance(account, caller, amount)
       ELSE UNCHANGED <<totalSupply, balances, allowances>>
    /\ UNCHANGED <<sideVars, poolVars, paused, lastMintTime, registryVars, orderVars,
                   govVars, disasterVars, now>>

transfer(caller, to, amount) ==
    LET ok == CanTransfer(balances, caller, to, amount) IN
    /\ lastTx' = Tx("transfer", caller, <<to, amount>>, ok)
    /\ IF ok THEN balances' = Move(balances, caller, to, amount)
       ELSE UNCHANGED balances
    /\ UNCHANGED <<sideVars, poolVars, allowances, totalSupply, paused, lastMintTime,
                   registryVars, orderVars, govVars, disasterVars, now>>

transferFrom(caller, from, to, amount) ==
    LET ok == CanSpend(from, caller, amount) /\ CanTransfer(balances, from, to, amount) IN
    /\ lastTx' = Tx("transferFrom", caller, <<from, to, amount>>, ok)
    /\ IF ok
       THEN /\ balances' = Move(balances, from, to, amount)
            /\ allowances' = SpendAllowance(from, caller, amount)
       ELSE UNCHANGED <<balances, allowances>>
    /\ UNCHANGED <<sideVars, poolVars, totalSupply, paused, lastMintTime, registryVars,
                   orderVars, govVars, disasterVars, now>>

\* ERC20._approve: the spender is not the zero address.
approve(caller, spender, amount) ==
    LET ok == spender # ZERO IN
    /\ lastTx' = Tx("approve", caller, <<spender, amount>>, ok)
    /\ allowances' = IF ok THEN [allowances EXCEPT ![caller][spender] = amount]
                     ELSE allowances
    /\ UNCHANGED <<sideVars, poolVars, balances, totalSupply, paused, lastMintTime,
                   registryVars, orderVars, govVars, disasterVars, now>>

\* allowance + addedValue is checked arithmetic: it reverts past uint256.
increaseAllowance(caller, spender, addedValue) ==
    LET ok == /\ spender # ZERO
              /\ Geq(MaxUint256, Add(allowances[caller][spender], addedValue))
    IN /\ lastTx' = Tx("increaseAllowance", caller, <<spender, addedValue>>, ok)
       /\ allowances' =
              IF ok THEN [allowances EXCEPT ![caller][spender] = Add(@, addedValue)]
              ELSE allowances
       /\ UNCHANGED <<sideVars, poolVars, balances, totalSupply, paused, lastMintTime,
                      registryVars, orderVars, govVars, disasterVars, now>>

decreaseAllowance(caller, spender, subtractedValue) ==
    LET ok == /\ spender # ZERO
              /\ Geq(allowances[caller][spender], subtractedValue)
    IN /\ lastTx' = Tx("decreaseAllowance", caller, <<spender, subtractedValue>>, ok)
       /\ allowances' =
              IF ok THEN [allowances EXCEPT ![caller][spender] = Sub(@, subtractedValue)]
              ELSE allowances
       /\ UNCHANGED <<sideVars, poolVars, balances, totalSupply, paused, lastMintTime,
                      registryVars, orderVars, govVars, disasterVars, now>>

pause(caller) ==
    LET ok == OnlyOwner(Token, caller) /\ ~paused IN
    /\ lastTx' = Tx("pause", caller, <<>>, ok)
    /\ paused' = IF ok THEN TRUE ELSE paused
    /\ UNCHANGED <<sideVars, poolVars, balances, allowances, totalSupply, lastMintTime,
                   registryVars, orderVars, govVars, disasterVars, now>>

unpause(caller) ==
    LET ok == OnlyOwner(Token, caller) /\ paused IN
    /\ lastTx' = Tx("unpause", caller, <<>>, ok)
    /\ paused' = IF ok THEN FALSE ELSE paused
    /\ UNCHANGED <<sideVars, poolVars, balances, allowances, totalSupply, lastMintTime,
                   registryVars, orderVars, govVars, disasterVars, now>>

\* ---------------------------------------------------------- WrappedHRM
\* wrap: transferFrom(msg.sender, this, amount) on the HRM token, then
\* _mint(msg.sender, amount) of wHRM.
wrap(caller, amount) ==
    LET ok == /\ amount # Zero
              /\ CanSpend(caller, WHRM, amount)
              /\ CanTransfer(balances, caller, WHRM, amount)
    IN
    /\ lastTx' = Tx("wrap", caller, <<amount>>, ok)
    /\ IF ok
       THEN /\ balances' = Move(balances, caller, WHRM, amount)
            /\ allowances' = SpendAllowance(caller, WHRM, amount)
            /\ wrappedSupply' = Add(wrappedSupply, amount)
            /\ wrappedBalances' = [wrappedBalances EXCEPT ![caller] = Add(@, amount)]
       ELSE UNCHANGED <<balances, allowances, wrappedSupply, wrappedBalances>>
    /\ UNCHANGED <<owner, wrappedAllowances, poolVars, totalSupply, paused, lastMintTime, registryVars,
                   orderVars, govVars, disasterVars, now>>

\* unwrap: _burn(msg.sender, amount) of wHRM, then transfer(msg.sender,
\* amount) on the HRM token.
unwrap(caller, amount) ==
    LET ok == /\ amount # Zero
              /\ Geq(wrappedBalances[caller], amount)
              /\ CanTransfer(balances, WHRM, caller, amount)
    IN
    /\ lastTx' = Tx("unwrap", caller, <<amount>>, ok)
    /\ IF ok
       THEN /\ wrappedSupply' = Sub(wrappedSupply, amount)
            /\ wrappedBalances' = [wrappedBalances EXCEPT ![caller] = Sub(@, amount)]
            /\ balances' = Move(balances, WHRM, caller, amount)
       ELSE UNCHANGED <<balances, wrappedSupply, wrappedBalances>>
    /\ UNCHANGED <<owner, wrappedAllowances, poolVars, allowances, totalSupply, paused, lastMintTime,
                   registryVars, orderVars, govVars, disasterVars, now>>

\* The wrapper's own ERC20 functions (inherited): wHRM moves between
\* accounts whether or not the HRM token is paused.
WHRM_transfer(caller, to, amount) ==
    LET ok == to # ZERO /\ Geq(wrappedBalances[caller], amount) IN
    /\ lastTx' = Tx("WrappedHRM.transfer", caller, <<to, amount>>, ok)
    /\ wrappedBalances' =
           IF ok THEN Move(wrappedBalances, caller, to, amount) ELSE wrappedBalances
    /\ UNCHANGED <<owner, wrappedAllowances, wrappedSupply, poolVars, tokenVars,
                   registryVars, orderVars, govVars, disasterVars, now>>

WHRM_transferFrom(caller, from, to, amount) ==
    LET ok == /\ Geq(wrappedAllowances[from][caller], amount)
              /\ to # ZERO
              /\ Geq(wrappedBalances[from], amount)
    IN
    /\ lastTx' = Tx("WrappedHRM.transferFrom", caller, <<from, to, amount>>, ok)
    /\ IF ok
       THEN /\ wrappedBalances' = Move(wrappedBalances, from, to, amount)
            /\ wrappedAllowances' =
                   IF wrappedAllowances[from][caller] = MaxUint256
                   THEN wrappedAllowances
                   ELSE [wrappedAllowances EXCEPT ![from][caller] = Sub(@, amount)]
       ELSE UNCHANGED <<wrappedBalances, wrappedAllowances>>
    /\ UNCHANGED <<owner, wrappedSupply, poolVars, tokenVars, registryVars,
                   orderVars, govVars, disasterVars, now>>

WHRM_approve(caller, spender, amount) ==
    LET ok == spender # ZERO IN
    /\ lastTx' = Tx("WrappedHRM.approve", caller, <<spender, amount>>, ok)
    /\ wrappedAllowances' =
           IF ok THEN [wrappedAllowances EXCEPT ![caller][spender] = amount]
           ELSE wrappedAllowances
    /\ UNCHANGED <<owner, wrappedBalances, wrappedSupply, poolVars, tokenVars,
                   registryVars, orderVars, govVars, disasterVars, now>>

WHRM_increaseAllowance(caller, spender, addedValue) ==
    LET ok == /\ spender # ZERO
              /\ Geq(MaxUint256, Add(wrappedAllowances[caller][spender], addedValue))
    IN
    /\ lastTx' = Tx("WrappedHRM.increaseAllowance", caller, <<spender, addedValue>>, ok)
    /\ wrappedAllowances' =
           IF ok
           THEN [wrappedAllowances EXCEPT ![caller][spender] = Add(@, addedValue)]
           ELSE wrappedAllowances
    /\ UNCHANGED <<owner, wrappedBalances, wrappedSupply, poolVars, tokenVars,
                   registryVars, orderVars, govVars, disasterVars, now>>

WHRM_decreaseAllowance(caller, spender, subtractedValue) ==
    LET ok == /\ spender # ZERO
              /\ Geq(wrappedAllowances[caller][spender], subtractedValue)
    IN
    /\ lastTx' = Tx("WrappedHRM.decreaseAllowance", caller,
                    <<spender, subtractedValue>>, ok)
    /\ wrappedAllowances' =
           IF ok
           THEN [wrappedAllowances EXCEPT ![caller][spender] = Sub(@, subtractedValue)]
           ELSE wrappedAllowances
    /\ UNCHANGED <<owner, wrappedBalances, wrappedSupply, poolVars, tokenVars,
                   registryVars, orderVars, govVars, disasterVars, now>>

\* ------------------------------------------------------- PropertyToken
NoProperty ==
    [totalValue |-> Zero, totalTokens |-> 0, availableTokens |-> 0, tokenPrice |-> Zero,
     propertyOwner |-> ZERO, isActive |-> FALSE, isVerified |-> FALSE, createdAt |-> 0]

NoInvestment ==
    [investor |-> ZERO, tokensOwned |-> 0, investmentAmount |-> Zero, purchaseDate |-> 0]

NoOrder ==
    [propertyId |-> 0, seller |-> ZERO, tokensForSale |-> 0, pricePerToken |-> Zero,
     totalPrice |-> Zero, isActive |-> FALSE, createdAt |-> 0, expiresAt |-> 0]

propertyExists(propertyId) == propertyId < propertyCount

\* Variant of propertyActive: any listed property counts as active.
propertyActiveIfListed(propertyId) == propertyExists(propertyId)

propertyActive(propertyId) == properties[propertyId].isActive

\* Variant of FeeOf: the fee rounded up instead of down.
FeeRoundedUp(cost) ==
    Div(Add(Mul(cost, platformFeePercent), Wei(FEE_DENOMINATOR - 1)), FEE_DENOMINATOR)

FeeOf(cost) == Div(Mul(cost, platformFeePercent), FEE_DENOMINATOR)

\* Variant of listProperty: a listing that is active at once.
listPropertyActive(caller, totalValue, totalTokens) ==
    LET ok == totalValue # Zero /\ totalTokens > 0
        propertyId == propertyCount
    IN
    /\ propertyCount < MaxProperties
    /\ lastTx' = Tx("listProperty", caller, <<totalValue, totalTokens>>, ok)
    /\ IF ok
       THEN /\ propertyCount' = propertyCount + 1
            /\ properties' = [properties EXCEPT ![propertyId] =
                   [totalValue |-> totalValue, totalTokens |-> totalTokens,
                    availableTokens |-> totalTokens,
                    tokenPrice |-> Div(totalValue, totalTokens),
                    propertyOwner |-> caller, isActive |-> TRUE,
                    isVerified |-> FALSE, createdAt |-> now]]
       ELSE UNCHANGED <<propertyCount, properties>>
    /\ UNCHANGED <<sideVars, poolVars, tokenVars, investments, propertyInvestors, investorProperties,
                   platformFeePercent, feeRecipient, orderVars, govVars,
                   disasterVars, now>>

listProperty(caller, totalValue, totalTokens) ==
    LET ok == totalValue # Zero /\ totalTokens > 0
        propertyId == propertyCount
    IN
    /\ propertyCount < MaxProperties
    /\ lastTx' = Tx("listProperty", caller, <<totalValue, totalTokens>>, ok)
    /\ IF ok
       THEN /\ propertyCount' = propertyCount + 1
            /\ properties' = [properties EXCEPT ![propertyId] =
                   [totalValue |-> totalValue, totalTokens |-> totalTokens,
                    availableTokens |-> totalTokens,
                    tokenPrice |-> Div(totalValue, totalTokens),
                    propertyOwner |-> caller, isActive |-> FALSE,
                    isVerified |-> FALSE, createdAt |-> now]]
       ELSE UNCHANGED <<propertyCount, properties>>
    /\ UNCHANGED <<sideVars, poolVars, tokenVars, investments, propertyInvestors, investorProperties,
                   platformFeePercent, feeRecipient, orderVars, govVars,
                   disasterVars, now>>

\* Variant of verifyProperty: each call flips isActive.
verifyPropertyToggling(caller, propertyId) ==
    LET ok == OnlyOwner(PT, caller) /\ propertyExists(propertyId) IN
    /\ lastTx' = Tx("verifyProperty", caller, <<propertyId>>, ok)
    /\ IF ok
       THEN properties' = [properties EXCEPT
                ![propertyId].isVerified = TRUE,
                ![propertyId].isActive = ~properties[propertyId].isActive]
       ELSE UNCHANGED properties
    /\ UNCHANGED <<sideVars, poolVars, tokenVars, propertyCount, investments, propertyInvestors,
                   investorProperties, platformFeePercent, feeRecipient, orderVars,
                   govVars, disasterVars, now>>

verifyProperty(caller, propertyId) ==
    LET ok == OnlyOwner(PT, caller) /\ propertyExists(propertyId) IN
    /\ lastTx' = Tx("verifyProperty", caller, <<propertyId>>, ok)
    /\ IF ok
       THEN properties' = [properties EXCEPT ![propertyId].isVerified = TRUE,
                                                ![propertyId].isActive = TRUE]
       ELSE UNCHANGED properties
    /\ UNCHANGED <<sideVars, poolVars, tokenVars, propertyCount, investments, propertyInvestors,
                   investorProperties, platformFeePercent, feeRecipient, orderVars,
                   govVars, disasterVars, now>>

\* transferFrom(buyer, this, cost); transfer(feeRecipient, fee);
\* transfer(payee, netAmount): the three transfers in order, each on the
\* balances the one before left.
\* Variant of Pay: the fee is not forwarded and stays with the registry.
PayKeepingFee(buyer, payee, cost) ==
    LET fee == FeeOf(cost)
        netAmount == Sub(cost, fee)
        ok1 == CanSpend(buyer, PT, cost) /\ CanTransfer(balances, buyer, PT, cost)
        b1 == Move(balances, buyer, PT, cost)
        ok3 == CanTransfer(b1, PT, payee, netAmount)
        b3 == Move(b1, PT, payee, netAmount)
    IN [ok |-> ok1 /\ ok3, bal |-> b3, fee |-> fee, netAmount |-> netAmount]

Pay(buyer, payee, cost) ==
    LET fee == FeeOf(cost)
        netAmount == Sub(cost, fee)
        ok1 == CanSpend(buyer, PT, cost) /\ CanTransfer(balances, buyer, PT, cost)
        b1 == Move(balances, buyer, PT, cost)
        ok2 == CanTransfer(b1, PT, feeRecipient, fee)
        b2 == Move(b1, PT, feeRecipient, fee)
        ok3 == CanTransfer(b2, PT, payee, netAmount)
        b3 == Move(b2, PT, payee, netAmount)
    IN [ok |-> ok1 /\ ok2 /\ ok3, bal |-> b3, fee |-> fee, netAmount |-> netAmount]

\* The buyer's Investment after acquiring `tokens` for `netAmount`.
\* Variant of Acquire: the buyer's record is written without the tokens.
AcquireNothing(inv, tokens, netAmount, buyer) ==
    [investor |-> buyer,
     tokensOwned |-> inv.tokensOwned,
     investmentAmount |-> Add(inv.investmentAmount, netAmount),
     purchaseDate |-> now]

Acquire(inv, tokens, netAmount, buyer) ==
    [investor |-> buyer,
     tokensOwned |-> inv.tokensOwned + tokens,
     investmentAmount |-> Add(inv.investmentAmount, netAmount),
     purchaseDate |-> now]

\* The two index lists, appended to on an account's first acquisition.
IndexInvestor(propertyId, buyer) ==
    IF investments[propertyId][buyer].investor = ZERO
    THEN /\ propertyInvestors' =
                [propertyInvestors EXCEPT ![propertyId] = Append(@, buyer)]
         /\ investorProperties' =
                [investorProperties EXCEPT ![buyer] = Append(@, propertyId)]
    ELSE UNCHANGED <<propertyInvestors, investorProperties>>

\* Variant of PurchaseOk: a purchase that does not look at availableTokens.
PurchaseOkUnlimited(caller, propertyId, tokens) ==
    /\ propertyExists(propertyId)
    /\ propertyActive(propertyId)
    /\ tokens > 0
    /\ Geq(Mul(properties[propertyId].tokenPrice, tokens), MIN_INVESTMENT)
    /\ Geq(balances[caller], Mul(properties[propertyId].tokenPrice, tokens))
    /\ Pay(caller, properties[propertyId].propertyOwner,
           Mul(properties[propertyId].tokenPrice, tokens)).ok

PurchaseOk(caller, propertyId, tokens) ==
    /\ propertyExists(propertyId)
    /\ propertyActive(propertyId)
    /\ tokens > 0
    /\ tokens <= properties[propertyId].availableTokens
    /\ Geq(Mul(properties[propertyId].tokenPrice, tokens), MIN_INVESTMENT)
    /\ Geq(balances[caller], Mul(properties[propertyId].tokenPrice, tokens))
    /\ Pay(caller, properties[propertyId].propertyOwner,
           Mul(properties[propertyId].tokenPrice, tokens)).ok

purchaseTokens(caller, propertyId, tokens) ==
    LET ok == PurchaseOk(caller, propertyId, tokens)
        property == properties[propertyId]
        cost == Mul(property.tokenPrice, tokens)
        paid == Pay(caller, property.propertyOwner, cost)
    IN
    /\ lastTx' = Tx("purchaseTokens", caller, <<propertyId, tokens>>, ok)
    /\ IF ok
       THEN /\ balances' = paid.bal
            /\ allowances' = SpendAllowance(caller, PT, cost)
            /\ IndexInvestor(propertyId, caller)
            /\ investments' = [investments EXCEPT ![propertyId][caller] =
                   Acquire(@, tokens, paid.netAmount, caller)]
            /\ properties' = [properties EXCEPT
                   ![propertyId].availableTokens = @ - tokens]
       ELSE UNCHANGED <<balances, allowances, propertyInvestors,
                        investorProperties, investments, properties>>
    /\ UNCHANGED <<sideVars, poolVars, totalSupply, paused, lastMintTime, propertyCount,
                   platformFeePercent, feeRecipient, orderVars, govVars,
                   disasterVars, now>>

\* Variant of RentalShare: dividing before multiplying.
ShareDividedFirst(totalIncome, tokensOwned, totalDistributed) ==
    Mul(Div(totalIncome, totalDistributed), tokensOwned)

RentalShare(totalIncome, tokensOwned, totalDistributed) ==
    Div(Mul(totalIncome, tokensOwned), totalDistributed)

\* The loop of distributeRentalIncome from index i on: [ok, bal].  A share
\* is computed and transferred only for an investor with tokensOwned > 0;
\* a division by zero or a failing transfer reverts the call.
RECURSIVE DistributeFrom(_, _, _, _, _)
DistributeFrom(bal, propertyId, totalIncome, totalDistributed, i) ==
    LET investors == propertyInvestors[propertyId] IN
    IF i > Len(investors) THEN [ok |-> TRUE, bal |-> bal]
    ELSE LET investor == investors[i]
             tokensOwned == investments[propertyId][investor].tokensOwned
         IN IF tokensOwned > 0
            THEN IF totalDistributed = 0 THEN [ok |-> FALSE, bal |-> bal]
                 ELSE LET share == RentalShare(totalIncome, tokensOwned, totalDistributed)
                      IN IF CanTransfer(bal, PT, investor, share)
                         THEN DistributeFrom(Move(bal, PT, investor, share), propertyId,
                                             totalIncome, totalDistributed, i + 1)
                         ELSE [ok |-> FALSE, bal |-> bal]
            ELSE DistributeFrom(bal, propertyId, totalIncome, totalDistributed, i + 1)

Distribution(propertyId, totalIncome) ==
    DistributeFrom(balances, propertyId, totalIncome,
                   properties[propertyId].totalTokens
                       - properties[propertyId].availableTokens, 1)

DistributeOk(caller, propertyId, totalIncome) ==
    /\ OnlyOwner(PT, caller)
    /\ propertyExists(propertyId)
    /\ totalIncome # Zero
    /\ Geq(balances[PT], totalIncome)
    /\ Distribution(propertyId, totalIncome).ok

distributeRentalIncome(caller, propertyId, totalIncome) ==
    LET ok == DistributeOk(caller, propertyId, totalIncome) IN
    /\ lastTx' = Tx("distributeRentalIncome", caller, <<propertyId, totalIncome>>, ok)
    /\ IF ok THEN balances' = Distribution(propertyId, totalIncome).bal
       ELSE UNCHANGED balances
    /\ UNCHANGED <<sideVars, poolVars, allowances, totalSupply, paused, lastMintTime, registryVars,
                   orderVars, govVars, disasterVars, now>>

setPlatformFee(caller, newFeePercent) ==
    LET ok == OnlyOwner(PT, caller) /\ newFeePercent <= MAX_FEE_PERCENT IN
    /\ lastTx' = Tx("setPlatformFee", caller, <<newFeePercent>>, ok)
    /\ platformFeePercent' = IF ok THEN newFeePercent ELSE platformFeePercent
    /\ UNCHANGED <<sideVars, poolVars, tokenVars, propertyCount, properties, investments,
                   propertyInvestors, investorProperties, feeRecipient, orderVars,
                   govVars, disasterVars, now>>

setFeeRecipient(caller, newRecipient) ==
    LET ok == OnlyOwner(PT, caller) /\ newRecipient # ZERO IN
    /\ lastTx' = Tx("setFeeRecipient", caller, <<newRecipient>>, ok)
    /\ feeRecipient' = IF ok THEN newRecipient ELSE feeRecipient
    /\ UNCHANGED <<sideVars, poolVars, tokenVars, propertyCount, properties, investments,
                   propertyInvestors, investorProperties, platformFeePercent,
                   orderVars, govVars, disasterVars, now>>

\* ----------------------------------------------- PropertyToken: orders
\* Variant of CreateOrderOk: an order of any positive duration is accepted.
CreateOrderOkAnyDuration(caller, propertyId, tokensForSale, pricePerToken, durationDays) ==
    /\ propertyExists(propertyId)
    /\ tokensForSale > 0
    /\ pricePerToken # Zero
    /\ durationDays > 0
    /\ investments[propertyId][caller].tokensOwned >= tokensForSale
    /\ Geq(MaxUint256, Mul(pricePerToken, tokensForSale))

\* The requirements of createSellOrder; tokensForSale * pricePerToken is
\* checked arithmetic and reverts past uint256.
CreateOrderOk(caller, propertyId, tokensForSale, pricePerToken, durationDays) ==
    /\ propertyExists(propertyId)
    /\ tokensForSale > 0
    /\ pricePerToken # Zero
    /\ durationDays > 0 /\ durationDays <= MAX_DURATION_DAYS
    /\ investments[propertyId][caller].tokensOwned >= tokensForSale
    /\ Geq(MaxUint256, Mul(pricePerToken, tokensForSale))

createSellOrder(caller, propertyId, tokensForSale, pricePerToken, durationDays) ==
    LET ok == CreateOrderOk(caller, propertyId, tokensForSale, pricePerToken,
                            durationDays)
        orderId == sellOrderCounter
    IN
    /\ sellOrderCounter < MaxOrders
    /\ lastTx' = Tx("createSellOrder", caller,
                    <<propertyId, tokensForSale, pricePerToken, durationDays>>, ok)
    /\ IF ok
       THEN /\ sellOrderCounter' = sellOrderCounter + 1
            /\ sellOrders' = [sellOrders EXCEPT ![orderId] =
                   [propertyId |-> propertyId, seller |-> caller,
                    tokensForSale |-> tokensForSale,
                    pricePerToken |-> pricePerToken,
                    totalPrice |-> Mul(pricePerToken, tokensForSale),
                    isActive |-> TRUE, createdAt |-> now,
                    expiresAt |-> now + durationDays]]
       ELSE UNCHANGED <<sellOrderCounter, sellOrders>>
    /\ UNCHANGED <<sideVars, poolVars, tokenVars, registryVars, govVars, disasterVars, now>>

\* Variant of SellerHolds: a fill that does not look at the seller's holding.
SellerUnchecked(propertyId, seller, tokensToBuy) == TRUE

\* require(sellerInvestment.tokensOwned >= tokensToBuy)
SellerHolds(propertyId, seller, tokensToBuy) ==
    investments[propertyId][seller].tokensOwned >= tokensToBuy

\* Variant of BuyOk: a fill that does not look at the order's expiry.
BuyOkAnyTime(caller, orderId, tokensToBuy) ==
    LET order == sellOrders[orderId] IN
    /\ order.isActive
    /\ tokensToBuy > 0 /\ tokensToBuy <= order.tokensForSale
    /\ caller # order.seller
    /\ SellerHolds(order.propertyId, order.seller, tokensToBuy)
    /\ Geq(balances[caller], Mul(order.pricePerToken, tokensToBuy))
    /\ Pay(caller, order.seller, Mul(order.pricePerToken, tokensToBuy)).ok

BuyOk(caller, orderId, tokensToBuy) ==
    LET order == sellOrders[orderId] IN
    /\ order.isActive
    /\ now <= order.expiresAt
    /\ tokensToBuy > 0 /\ tokensToBuy <= order.tokensForSale
    /\ caller # order.seller
    /\ SellerHolds(order.propertyId, order.seller, tokensToBuy)
    /\ Geq(balances[caller], Mul(order.pricePerToken, tokensToBuy))
    /\ Pay(caller, order.seller, Mul(order.pricePerToken, tokensToBuy)).ok

\* Variant of buyFromOrder: the seller's tokensOwned is not reduced.
buyFromOrderSellerKeeps(caller, orderId, tokensToBuy) ==
    LET ok == BuyOk(caller, orderId, tokensToBuy)
        order == sellOrders[orderId]
        totalCost == Mul(order.pricePerToken, tokensToBuy)
        paid == Pay(caller, order.seller, totalCost)
        left == order.tokensForSale - tokensToBuy
    IN
    /\ lastTx' = Tx("buyFromOrder", caller, <<orderId, tokensToBuy>>, ok)
    /\ IF ok
       THEN /\ balances' = paid.bal
            /\ allowances' = SpendAllowance(caller, PT, totalCost)
            /\ IndexInvestor(order.propertyId, caller)
            /\ investments' = [investments EXCEPT
                   ![order.propertyId][caller] =
                       Acquire(@, tokensToBuy, paid.netAmount, caller)]
            /\ sellOrders' = [sellOrders EXCEPT
                   ![orderId].tokensForSale = left,
                   ![orderId].isActive = (left # 0)]
       ELSE UNCHANGED <<balances, allowances, propertyInvestors,
                        investorProperties, investments, sellOrders>>
    /\ UNCHANGED <<sideVars, poolVars, totalSupply, paused, lastMintTime, propertyCount, properties,
                   platformFeePercent, feeRecipient, sellOrderCounter, govVars,
                   disasterVars, now>>

buyFromOrder(caller, orderId, tokensToBuy) ==
    LET ok == BuyOk(caller, orderId, tokensToBuy)
        order == sellOrders[orderId]
        totalCost == Mul(order.pricePerToken, tokensToBuy)
        paid == Pay(caller, order.seller, totalCost)
        left == order.tokensForSale - tokensToBuy
    IN
    /\ lastTx' = Tx("buyFromOrder", caller, <<orderId, tokensToBuy>>, ok)
    /\ IF ok
       THEN /\ balances' = paid.bal
            /\ allowances' = SpendAllowance(caller, PT, totalCost)
            /\ IndexInvestor(order.propertyId, caller)
            /\ investments' = [investments EXCEPT
                   ![order.propertyId][order.seller].tokensOwned = @ - tokensToBuy,
                   ![order.propertyId][caller] =
                       Acquire(@, tokensToBuy, paid.netAmount, caller)]
            /\ sellOrders' = [sellOrders EXCEPT
                   ![orderId].tokensForSale = left,
                   ![orderId].isActive = (left # 0)]
       ELSE UNCHANGED <<balances, allowances, propertyInvestors,
                        investorProperties, investments, sellOrders>>
    /\ UNCHANGED <<sideVars, poolVars, totalSupply, paused, lastMintTime, propertyCount, properties,
                   platformFeePercent, feeRecipient, sellOrderCounter, govVars,
                   disasterVars, now>>

\* Variant of cancelSellOrder: any caller may cancel an active order.
cancelSellOrderByAnyone(caller, orderId) ==
    LET order == sellOrders[orderId]
        ok == order.isActive
    IN
    /\ lastTx' = Tx("cancelSellOrder", caller, <<orderId>>, ok)
    /\ IF ok THEN sellOrders' = [sellOrders EXCEPT ![orderId].isActive = FALSE]
       ELSE UNCHANGED sellOrders
    /\ UNCHANGED <<sideVars, poolVars, tokenVars, registryVars, sellOrderCounter, govVars,
                   disasterVars, now>>

cancelSellOrder(caller, orderId) ==
    LET order == sellOrders[orderId]
        ok == (order.seller = caller \/ caller = owner[PT]) /\ order.isActive
    IN
    /\ lastTx' = Tx("cancelSellOrder", caller, <<orderId>>, ok)
    /\ IF ok THEN sellOrders' = [sellOrders EXCEPT ![orderId].isActive = FALSE]
       ELSE UNCHANGED sellOrders
    /\ UNCHANGED <<sideVars, poolVars, tokenVars, registryVars, sellOrderCounter, govVars,
                   disasterVars, now>>

\* block.timestamp moves forward between transactions.
AdvanceTime(days) ==
    /\ now + days <= MaxTime
    /\ now' = now + days
    /\ lastTx' = Tx("advanceTime", ZERO, <<days>>, TRUE)
    /\ UNCHANGED <<sideVars, poolVars, tokenVars, registryVars, orderVars, govVars, disasterVars>>

\* ----------------------------------------------------- RendaGovernance
NoProposal ==
    [proposer |-> ZERO, votesFor |-> Zero, votesAgainst |-> Zero, startTime |-> 0,
     endTime |-> 0, executed |-> FALSE, passed |-> FALSE]

NoVote == [hasVoted |-> FALSE, support |-> FALSE, votingPower |-> Zero]

validProposal(proposalId) == proposalId > 0 /\ proposalId <= proposalCount

\* (totalSupply * QUORUM_PERCENTAGE) / 100
Quorum(supply) == Div(Mul(supply, QUORUM_PERCENTAGE), 100)

Passed(votesFor, votesAgainst, supply) ==
    Geq(Add(votesFor, votesAgainst), Quorum(supply)) /\ Gt(votesFor, votesAgainst)

createProposal(caller) ==
    LET ok == Geq(balances[caller], MIN_VOTING_POWER) IN
    /\ proposalCount < MaxProposals
    /\ lastTx' = Tx("createProposal", caller, <<>>, ok)
    /\ IF ok
       THEN /\ proposalCount' = proposalCount + 1
            /\ proposals' = [proposals EXCEPT ![proposalCount + 1] =
                   [proposer |-> caller, votesFor |-> Zero, votesAgainst |-> Zero,
                    startTime |-> now, endTime |-> now + VOTING_PERIOD,
                    executed |-> FALSE, passed |-> FALSE]]
       ELSE UNCHANGED <<proposalCount, proposals>>
    /\ UNCHANGED <<sideVars, poolVars, tokenVars, registryVars, orderVars, votes, disasterVars, now>>

\* Variant of VoteOk: a vote that does not look at hasVoted.
VoteOkRepeated(caller, proposalId) ==
    /\ validProposal(proposalId)
    /\ now <= proposals[proposalId].endTime
    /\ Geq(balances[caller], MIN_VOTING_POWER)

VoteOk(caller, proposalId) ==
    /\ validProposal(proposalId)
    /\ now <= proposals[proposalId].endTime
    /\ ~votes[proposalId][caller].hasVoted
    /\ Geq(balances[caller], MIN_VOTING_POWER)

\* Variant of vote: a vote is accepted after endTime as well.
voteAfterClose(caller, proposalId, support) ==
    LET ok == /\ validProposal(proposalId)
              /\ ~votes[proposalId][caller].hasVoted
              /\ Geq(balances[caller], MIN_VOTING_POWER)
        votingPower == balances[caller]
    IN
    /\ lastTx' = Tx("vote", caller, <<proposalId, support>>, ok)
    /\ IF ok
       THEN /\ votes' = [votes EXCEPT ![proposalId][caller] =
                   [hasVoted |-> TRUE, support |-> support,
                    votingPower |-> votingPower]]
            /\ proposals' = [proposals EXCEPT
                   ![proposalId].votesFor = IF support THEN Add(@, votingPower) ELSE @,
                   ![proposalId].votesAgainst = IF support THEN @ ELSE Add(@, votingPower)]
       ELSE UNCHANGED <<votes, proposals>>
    /\ UNCHANGED <<sideVars, poolVars, tokenVars, registryVars, orderVars, proposalCount,
                   disasterVars, now>>

vote(caller, proposalId, support) ==
    LET ok == VoteOk(caller, proposalId)
        votingPower == balances[caller]
    IN
    /\ lastTx' = Tx("vote", caller, <<proposalId, support>>, ok)
    /\ IF ok
       THEN /\ votes' = [votes EXCEPT ![proposalId][caller] =
                   [hasVoted |-> TRUE, support |-> support,
                    votingPower |-> votingPower]]
            /\ proposals' = [proposals EXCEPT
                   ![proposalId].votesFor = IF support THEN Add(@, votingPower) ELSE @,
                   ![proposalId].votesAgainst = IF support THEN @ ELSE Add(@, votingPower)]
       ELSE UNCHANGED <<votes, proposals>>
    /\ UNCHANGED <<sideVars, poolVars, tokenVars, registryVars, orderVars, proposalCount,
                   disasterVars, now>>

\* Variant of ExecuteOk: an execution that does not look at executed.
ExecuteOkAgain(caller, proposalId) ==
    /\ validProposal(proposalId)
    /\ now > proposals[proposalId].endTime

ExecuteOk(caller, proposalId) ==
    /\ validProposal(proposalId)
    /\ now > proposals[proposalId].endTime
    /\ ~proposals[proposalId].executed

executeProposal(caller, proposalId) ==
    LET ok == ExecuteOk(caller, proposalId) IN
    /\ lastTx' = Tx("executeProposal", caller, <<proposalId>>, ok)
    /\ IF ok
       THEN proposals' = [proposals EXCEPT
                ![proposalId].executed = TRUE,
                ![proposalId].passed =
                    Passed(proposals[proposalId].votesFor,
                           proposals[proposalId].votesAgainst, totalSupply)]
       ELSE UNCHANGED proposals
    /\ UNCHANGED <<sideVars, poolVars, tokenVars, registryVars, orderVars, proposalCount, votes,
                   disasterVars, now>>

\* -------------------------------------------------- DisasterManagement
PENDING == "PENDING"
APPROVED == "APPROVED"
REJECTED == "REJECTED"
PAID == "PAID"
ClaimStatus == {PENDING, APPROVED, REJECTED, PAID}

NoReport == [propertyId |-> 0, reportedAt |-> 0, reporter |-> ZERO, verified |-> FALSE]

NoClaim ==
    [propertyId |-> 0, disasterReportId |-> 0, claimAmount |-> Zero, status |-> PENDING,
     claimedAt |-> 0, claimant |-> ZERO, approvedAmount |-> Zero]

validReport(reportId) == reportId > 0 /\ reportId <= disasterReportCount

validClaim(claimId) == claimId > 0 /\ claimId <= insuranceClaimCount

DepositOk(caller, amount) ==
    /\ amount # Zero
    /\ CanSpend(caller, DM, amount)
    /\ CanTransfer(balances, caller, DM, amount)

\* Variant of depositInsuranceFund: the amount is counted but not collected.
depositInsuranceFundUncollected(caller, amount) ==
    LET ok == DepositOk(caller, amount) IN
    /\ lastTx' = Tx("depositInsuranceFund", caller, <<amount>>, ok)
    /\ IF ok
       THEN /\ balances' = balances
            /\ allowances' = SpendAllowance(caller, DM, amount)
            /\ insuranceFund' = Add(insuranceFund, amount)
       ELSE UNCHANGED <<balances, allowances, insuranceFund>>
    /\ UNCHANGED <<sideVars, poolVars, totalSupply, paused, lastMintTime, registryVars, orderVars,
                   govVars, disasterReportCount, disasterReports,
                   insuranceClaimCount, insuranceClaims, authorizedReporters, now>>

depositInsuranceFund(caller, amount) ==
    LET ok == DepositOk(caller, amount) IN
    /\ lastTx' = Tx("depositInsuranceFund", caller, <<amount>>, ok)
    /\ IF ok
       THEN /\ balances' = Move(balances, caller, DM, amount)
            /\ allowances' = SpendAllowance(caller, DM, amount)
            /\ insuranceFund' = Add(insuranceFund, amount)
       ELSE UNCHANGED <<balances, allowances, insuranceFund>>
    /\ UNCHANGED <<sideVars, poolVars, totalSupply, paused, lastMintTime, registryVars, orderVars,
                   govVars, disasterReportCount, disasterReports,
                   insuranceClaimCount, insuranceClaims, authorizedReporters, now>>

reportDisaster(caller, propertyId) ==
    LET ok == caller \in authorizedReporters \/ caller = owner[DM] IN
    /\ disasterReportCount < MaxReports
    /\ lastTx' = Tx("reportDisaster", caller, <<propertyId>>, ok)
    /\ IF ok
       THEN /\ disasterReportCount' = disasterReportCount + 1
            /\ disasterReports' = [disasterReports EXCEPT
                   ![disasterReportCount + 1] =
                       [propertyId |-> propertyId, reportedAt |-> now,
                        reporter |-> caller, verified |-> FALSE]]
       ELSE UNCHANGED <<disasterReportCount, disasterReports>>
    /\ UNCHANGED <<sideVars, poolVars, tokenVars, registryVars, orderVars, govVars,
                   insuranceClaimCount, insuranceClaims, insuranceFund,
                   authorizedReporters, now>>

verifyDisaster(caller, reportId, verified) ==
    LET ok == OnlyOwner(DM, caller) /\ validReport(reportId) IN
    /\ lastTx' = Tx("verifyDisaster", caller, <<reportId, verified>>, ok)
    /\ IF ok
       THEN disasterReports' = [disasterReports EXCEPT ![reportId].verified = verified]
       ELSE UNCHANGED disasterReports
    /\ UNCHANGED <<sideVars, poolVars, tokenVars, registryVars, orderVars, govVars,
                   disasterReportCount, insuranceClaimCount, insuranceClaims,
                   insuranceFund, authorizedReporters, now>>

SubmitOk(propertyId, disasterReportId, claimAmount) ==
    /\ validReport(disasterReportId)
    /\ disasterReports[disasterReportId].verified
    /\ disasterReports[disasterReportId].propertyId = propertyId
    /\ claimAmount # Zero

submitClaim(caller, propertyId, disasterReportId, claimAmount) ==
    LET ok == SubmitOk(propertyId, disasterReportId, claimAmount) IN
    /\ insuranceClaimCount < MaxClaims
    /\ lastTx' = Tx("submitClaim", caller,
                    <<propertyId, disasterReportId, claimAmount>>, ok)
    /\ IF ok
       THEN /\ insuranceClaimCount' = insuranceClaimCount + 1
            /\ insuranceClaims' = [insuranceClaims EXCEPT
                   ![insuranceClaimCount + 1] =
                       [propertyId |-> propertyId,
                        disasterReportId |-> disasterReportId,
                        claimAmount |-> claimAmount, status |-> PENDING,
                        claimedAt |-> now, claimant |-> caller,
                        approvedAmount |-> Zero]]
       ELSE UNCHANGED <<insuranceClaimCount, insuranceClaims>>
    /\ UNCHANGED <<sideVars, poolVars, tokenVars, registryVars, orderVars, govVars,
                   disasterReportCount, disasterReports, insuranceFund,
                   authorizedReporters, now>>

\* The branch of processClaim that pays out.
PaysOut(status, approvedAmount) == status = APPROVED /\ approvedAmount # Zero

\* Variant of StatusAfter: the status as passed by the caller.
StatusAsGiven(status, approvedAmount) == status

\* The status a processed claim is left with.
StatusAfter(status, approvedAmount) ==
    IF PaysOut(status, approvedAmount) THEN PAID ELSE status

\* Variant of ProcessOk: a claim in any status can be processed.
ProcessOkAnyStatus(caller, claimId, status, approvedAmount) ==
    /\ OnlyOwner(DM, caller)
    /\ validClaim(claimId)
    /\ PaysOut(status, approvedAmount) =>
           /\ Geq(insuranceFund, approvedAmount)
           /\ CanTransfer(balances, DM, insuranceClaims[claimId].claimant,
                          approvedAmount)

ProcessOk(caller, claimId, status, approvedAmount) ==
    /\ OnlyOwner(DM, caller)
    /\ validClaim(claimId)
    /\ insuranceClaims[claimId].status = PENDING
    /\ PaysOut(status, approvedAmount) =>
           /\ Geq(insuranceFund, approvedAmount)
           /\ CanTransfer(balances, DM, insuranceClaims[claimId].claimant,
                          approvedAmount)

processClaim(caller, claimId, status, approvedAmount) ==
    LET ok == ProcessOk(caller, claimId, status, approvedAmount) IN
    /\ lastTx' = Tx("processClaim", caller, <<claimId, status, approvedAmount>>, ok)
    /\ IF ok
       THEN /\ insuranceClaims' = [insuranceClaims EXCEPT
                   ![claimId].status = StatusAfter(status, approvedAmount),
                   ![claimId].approvedAmount = approvedAmount]
            /\ IF PaysOut(status, approvedAmount)
               THEN /\ balances' = Move(balances, DM,
                                        insuranceClaims[claimId].claimant,
                                        approvedAmount)
                    /\ insuranceFund' = Sub(insuranceFund, approvedAmount)
               ELSE UNCHANGED <<balances, insuranceFund>>
       ELSE UNCHANGED <<insuranceClaims, balances, insuranceFund>>
    /\ UNCHANGED <<sideVars, poolVars, allowances, totalSupply, paused, lastMintTime, registryVars,
                   orderVars, govVars, disasterReportCount, disasterReports,
                   insuranceClaimCount, authorizedReporters, now>>

authorizeReporter(caller, reporter) ==
    LET ok == OnlyOwner(DM, caller) IN
    /\ lastTx' = Tx("authorizeReporter", caller, <<reporter>>, ok)
    /\ authorizedReporters' =
           IF ok THEN authorizedReporters \cup {reporter} ELSE authorizedReporters
    /\ UNCHANGED <<sideVars, poolVars, tokenVars, registryVars, orderVars, govVars,
                   disasterReportCount, disasterReports, insuranceClaimCount,
                   insuranceClaims, insuranceFund, now>>

revokeReporter(caller, reporter) ==
    LET ok == OnlyOwner(DM, caller) IN
    /\ lastTx' = Tx("revokeReporter", caller, <<reporter>>, ok)
    /\ authorizedReporters' =
           IF ok THEN authorizedReporters \ {reporter} ELSE authorizedReporters
    /\ UNCHANGED <<sideVars, poolVars, tokenVars, registryVars, orderVars, govVars,
                   disasterReportCount, disasterReports, insuranceClaimCount,
                   insuranceClaims, insuranceFund, now>>


\* ================================================= the real estate pool
\* contracts/RealEstatePool.sol.  The pool is deployed by the admin with
\* the other contracts, DeployDay days after the epoch of block.timestamp;
\* userInfo[...].lastClaimTime starts at 0, the default of the mapping.
DeployDay == 55 * 365
REWARD_RATE == 5
DaysPerYear == 365

Timestamp == DeployDay + now

NoUser ==
    [hrmDeposited |-> Zero, propertyTokensOwned |-> 0, rewardsEarned |-> Zero,
     lastClaimTime |-> 0]

DepositHRMOk(caller, amount) ==
    /\ amount # Zero
    /\ CanSpend(caller, Pool, amount)
    /\ CanTransfer(balances, caller, Pool, amount)

depositHRM(caller, amount) ==
    LET ok == DepositHRMOk(caller, amount) IN
    /\ lastTx' = Tx("depositHRM", caller, <<amount>>, ok)
    /\ IF ok
       THEN /\ balances' = Move(balances, caller, Pool, amount)
            /\ allowances' = SpendAllowance(caller, Pool, amount)
            /\ userInfo' = [userInfo EXCEPT ![caller].hrmDeposited = Add(@, amount)]
            /\ poolInfo' = [poolInfo EXCEPT !.totalHRMDeposited = Add(@, amount)]
       ELSE UNCHANGED <<balances, allowances, userInfo, poolInfo>>
    /\ UNCHANGED <<sideVars, totalSupply, paused, lastMintTime, registryVars,
                   orderVars, govVars, disasterVars, now>>

WithdrawHRMOk(caller, amount) ==
    /\ Geq(userInfo[caller].hrmDeposited, amount)
    /\ CanTransfer(balances, Pool, caller, amount)

withdrawHRM(caller, amount) ==
    LET ok == WithdrawHRMOk(caller, amount) IN
    /\ lastTx' = Tx("withdrawHRM", caller, <<amount>>, ok)
    /\ IF ok
       THEN /\ userInfo' = [userInfo EXCEPT ![caller].hrmDeposited = Sub(@, amount)]
            /\ poolInfo' = [poolInfo EXCEPT !.totalHRMDeposited = Sub(@, amount)]
            /\ balances' = Move(balances, Pool, caller, amount)
       ELSE UNCHANGED <<balances, userInfo, poolInfo>>
    /\ UNCHANGED <<sideVars, allowances, totalSupply, paused, lastMintTime,
                   registryVars, orderVars, govVars, disasterVars, now>>

\* (yearlyReward * timeElapsed) / 365 days, with timeElapsed in days.
calculateRewards(userAddress) ==
    LET user == userInfo[userAddress]
        timeElapsed == Timestamp - user.lastClaimTime
        yearlyReward == Div(Mul(user.hrmDeposited, poolInfo.rewardRate), 100)
        reward == Div(Mul(yearlyReward, timeElapsed), DaysPerYear)
    IN IF user.hrmDeposited = Zero THEN Zero ELSE Add(reward, user.rewardsEarned)

ClaimRewardsOk(caller) ==
    /\ calculateRewards(caller) # Zero
    /\ Geq(balances[Pool], calculateRewards(caller))
    /\ CanTransfer(balances, Pool, caller, calculateRewards(caller))

claimRewards(caller) ==
    LET ok == ClaimRewardsOk(caller)
        rewards == calculateRewards(caller)
    IN
    /\ lastTx' = Tx("claimRewards", caller, <<rewards>>, ok)
    /\ IF ok
       THEN /\ userInfo' = [userInfo EXCEPT ![caller].rewardsEarned = Zero,
                                            ![caller].lastClaimTime = Timestamp]
            /\ balances' = Move(balances, Pool, caller, rewards)
       ELSE UNCHANGED <<balances, userInfo>>
    /\ UNCHANGED <<sideVars, poolInfo, allowances, totalSupply, paused, lastMintTime,
                   registryVars, orderVars, govVars, disasterVars, now>>

updateRewardRate(caller, newRate) ==
    LET ok == OnlyOwner(Pool, caller) IN
    /\ lastTx' = Tx("updateRewardRate", caller, <<newRate>>, ok)
    /\ poolInfo' = IF ok THEN [poolInfo EXCEPT !.rewardRate = newRate] ELSE poolInfo
    /\ UNCHANGED <<sideVars, userInfo, tokenVars, registryVars, orderVars, govVars,
                   disasterVars, now>>
\* ------------------------------------------------------- initial state
\* The state after the constructors, all run by the admin: each contract is
\* owned by its deployer, HRMToken mints INITIAL_SUPPLY to the deployer and
\* PropertyToken is built with the deployer as fee recipient.
Init ==
    /\ balances = [a \in Addresses |-> IF a = Admin THEN INITIAL_SUPPLY ELSE Zero]
    /\ allowances = [a \in Addresses |-> [b \in Addresses |-> Zero]]
    /\ totalSupply = INITIAL_SUPPLY
    /\ paused = FALSE
    /\ lastMintTime = [a \in Addresses |-> 0]
    /\ owner = [c \in Contracts |-> Admin]
    /\ wrappedBalances = [a \in Addresses |-> Zero]
    /\ wrappedAllowances = [a \in Addresses |-> [b \in Addresses |-> Zero]]
    /\ wrappedSupply = Zero
    /\ propertyCount = 0
    /\ properties = [p \in PropertyIds |-> NoProperty]
    /\ investments = [p \in PropertyIds |-> [a \in Addresses |-> NoInvestment]]
    /\ propertyInvestors = [p \in PropertyIds |-> <<>>]
    /\ investorProperties = [a \in Addresses |-> <<>>]
    /\ platformFeePercent = INITIAL_FEE_PERCENT
    /\ feeRecipient = Admin
    /\ sellOrders = [o \in OrderIds |-> NoOrder]
    /\ sellOrderCounter = 0
    /\ proposalCount = 0
    /\ proposals = [p \in ProposalIds |-> NoProposal]
    /\ votes = [p \in ProposalIds |-> [a \in Addresses |-> NoVote]]
    /\ disasterReportCount = 0
    /\ disasterReports = [r \in ReportIds |-> NoReport]
    /\ insuranceClaimCount = 0
    /\ insuranceClaims = [c \in ClaimIds |-> NoClaim]
    /\ insuranceFund = Zero
    /\ authorizedReporters = {Admin}
    /\ poolInfo = [totalHRMDeposited |-> Zero, totalPropertyTokens |-> 0,
                   rewardRate |-> REWARD_RATE, lastUpdateTime |-> DeployDay]
    /\ userInfo = [a \in Addresses |-> NoUser]
    /\ now = 0
    /\ lastTx = Tx("constructor", Admin, <<>>, TRUE)

\* ================================================== specifications
\* Each specification starts from the constructors' state and runs the
\* functions of one ledger with inputs from small sets.  Minting is
\* budgeted: MaxMinted public mints above the initial supply.

MintBudget ==
    Gt(Add(INITIAL_SUPPLY, Mul(PUBLIC_MINT_AMOUNT, MaxMinted)), totalSupply)

\* --------------------------------------------- the registry: purchases
ListInputs == {<<Admin, HRM(300), 300>>, <<Alice, HRM(1000), 300>>, <<Alice, Zero, 300>>}
PurchaseAmounts == {0, 50, 100, 200}
FeeInputs == {1000, 1001}
ApproveAmounts == {HRM(400)}

Next ==
    \/ \E c \in {Alice, Bob} : totalSupply = INITIAL_SUPPLY /\ publicMint(c)
    \/ \E c \in Users, a \in ApproveAmounts :
           allowances[c][PT] = Zero /\ approve(c, PT, a)
    \/ \E c \in Users : pause(c)
    \/ \E c \in Users : unpause(c)
    \/ \E in \in ListInputs : listProperty(in[1], in[2], in[3])
    \/ \E c \in Users, p \in PropertyIds : verifyProperty(c, p)
    \/ \E c \in Users, p \in PropertyIds, n \in PurchaseAmounts :
           purchaseTokens(c, p, n)
    \/ \E c \in Users, f \in FeeInputs : setPlatformFee(c, f)
    \/ \E c \in {Admin, Bob}, n \in {Alice, ZERO} : transferOwnership(PT, c, n)

Spec == Init /\ [][Next]_vars

\* ------------------------------------------------------ the order book
OrderAmounts == {100, 200}
OrderPrices == {Div(HRM(1), 3)}
DurationInputs == {1, 91}

NextOrders ==
    \/ totalSupply = INITIAL_SUPPLY /\ publicMint(Bob)
    \/ \E c \in Users, a \in ApproveAmounts :
           allowances[c][PT] = Zero /\ approve(c, PT, a)
    \/ listProperty(Alice, HRM(300), 300)
    \/ \E p \in PropertyIds : verifyProperty(Admin, p)
    \/ \E c \in Users, p \in PropertyIds : purchaseTokens(c, p, 200)
    \/ \E c \in Users, p \in PropertyIds, n \in OrderAmounts, q \in OrderPrices,
          d \in DurationInputs : createSellOrder(c, p, n, q, d)
    \/ \E c \in Users, o \in OrderIds, n \in OrderAmounts : buyFromOrder(c, o, n)
    \/ \E c \in Users, o \in OrderIds : cancelSellOrder(c, o)
    \/ \E c \in Users, r \in {Bob, ZERO} : setFeeRecipient(c, r)

SpecOrders == Init /\ [][NextOrders]_vars

\* ------------------------------------------- the order book, with time
\* One holder is set up first (a verified property, two funded and approved
\* accounts, one purchase); orders are then created, filled and cancelled
\* while days pass.
ExpirySetup ==
    IF propertyCount = 0 THEN listProperty(Alice, HRM(300), 300)
    ELSE IF ~properties[0].isActive THEN verifyProperty(Admin, 0)
    ELSE IF totalSupply = INITIAL_SUPPLY THEN publicMint(Bob)
    ELSE IF allowances[Bob][PT] = Zero THEN approve(Bob, PT, HRM(400))
    ELSE IF allowances[Admin][PT] = Zero THEN approve(Admin, PT, HRM(400))
    ELSE investments[0][Admin].investor = ZERO /\ purchaseTokens(Admin, 0, 200)

ExpiryReady == investments[0][Admin].investor # ZERO

ExpiryStep == MaxTime \div 2
ExpiryDurations == {0, 1, ExpiryStep, MAX_DURATION_DAYS, MAX_DURATION_DAYS + 1}
ExpiryAmounts == {100, 200}

NextExpiry ==
    \/ ExpirySetup
    \/ ExpiryReady /\ \E c \in Users, n \in ExpiryAmounts, q \in OrderPrices,
                          d \in ExpiryDurations : createSellOrder(c, 0, n, q, d)
    \/ ExpiryReady /\ \E c \in Users, o \in OrderIds, n \in ExpiryAmounts :
           buyFromOrder(c, o, n)
    \/ ExpiryReady /\ \E c \in Users, o \in OrderIds : cancelSellOrder(c, o)
    \/ ExpiryReady /\ AdvanceTime(ExpiryStep)
    \/ sellOrderCounter = MaxOrders
          /\ \E c \in {Admin, Alice} : transferOwnership(PT, c, Bob)

SpecExpiry == Init /\ [][NextExpiry]_vars

\* ------------------------------------------------------ rental income
IncomeAmounts == {Wei(1000)}

\* The registry is given a small fund once, by the account that holds the
\* initial supply.
IncomeFund == Wei(3000)

NextIncome ==
    \/ \E c \in {Alice, Bob} : MintBudget /\ publicMint(c)
    \/ balances[Admin] = INITIAL_SUPPLY /\ transfer(Admin, PT, IncomeFund)
    \/ \E c \in Users, a \in ApproveAmounts :
           allowances[c][PT] = Zero /\ approve(c, PT, a)
    \/ listProperty(Admin, HRM(300), 300)
    \/ \E p \in PropertyIds : verifyProperty(Admin, p)
    \/ \E c \in Users, p \in PropertyIds, n \in OrderAmounts : purchaseTokens(c, p, n)
    \/ \E c \in Users, p \in PropertyIds, a \in IncomeAmounts :
           distributeRentalIncome(c, p, a)

SpecIncome == Init /\ [][NextIncome]_vars

\* ------------------------------------------------------------ the token
CapGap == Sub(MAX_SUPPLY, INITIAL_SUPPLY)
TokenMintInputs == {Zero, PUBLIC_MINT_AMOUNT, Sub(CapGap, PUBLIC_MINT_AMOUNT), CapGap}

\* The supplies the token specification visits: within MaxMinted public
\* mints of the initial supply, or within as many of the cap.
InWindow(supply) ==
    \/ Geq(Add(INITIAL_SUPPLY, Mul(PUBLIC_MINT_AMOUNT, MaxMinted)), supply)
    \/ Geq(Add(supply, Mul(PUBLIC_MINT_AMOUNT, MaxMinted)), MAX_SUPPLY)

NextToken ==
    \/ \E c \in {Alice, Bob}, to \in {PT, ZERO}, a \in TokenMintInputs :
           mint(c, to, a) /\ InWindow(totalSupply')
    \/ \E c \in {Alice, Bob} : publicMint(c) /\ InWindow(totalSupply')
    \/ \E to \in {Bob, ZERO} : publicMintTo(Alice, to) /\ InWindow(totalSupply')
    \/ \E a \in {Zero, PUBLIC_MINT_AMOUNT} : mintAmount(Bob, a) /\ InWindow(totalSupply')
    \/ \E to \in {PT, ZERO}, a \in TokenMintInputs :
           mintAmountTo(Bob, to, a) /\ InWindow(totalSupply')
    \/ \E c \in {Alice, Bob} : burn(c, PUBLIC_MINT_AMOUNT) /\ InWindow(totalSupply')
    \/ burnFrom(Bob, Alice, PUBLIC_MINT_AMOUNT) /\ InWindow(totalSupply')
    \/ \E c \in {Alice, Bob}, to \in {Alice, Bob, ZERO} :
           transfer(c, to, PUBLIC_MINT_AMOUNT)
    \/ \E to \in {Bob, ZERO} : transferFrom(Bob, Alice, to, PUBLIC_MINT_AMOUNT)
    \/ \E s \in {Bob, ZERO}, a \in {Zero, PUBLIC_MINT_AMOUNT, MaxUint256} :
           approve(Alice, s, a)
    \/ \E s \in {Bob, ZERO} :
           /\ allowances[Alice][Bob] \in {Zero, MaxUint256}
           /\ increaseAllowance(Alice, s, PUBLIC_MINT_AMOUNT)
    \/ \E s \in {Bob, ZERO} :
           /\ allowances[Alice][Bob] # MaxUint256
           /\ decreaseAllowance(Alice, s, PUBLIC_MINT_AMOUNT)
    \/ \E c \in {Admin, Bob} : transferOwnership(Token, c, ZERO)
    \/ \E c \in {Admin, Bob} : renounceOwnership(Token, c)
    \/ \E c \in Users : pause(c)
    \/ \E c \in Users : unpause(c)

SpecToken == Init /\ [][NextToken]_vars

\* ----------------------------------------------------------- governance
NextGov ==
    \/ \E a \in {HRM(60000), HRM(90000)} :
           balances[Alice] = Zero /\ transfer(Admin, Alice, a)
    \/ balances[Bob] = Zero /\ transfer(Admin, Bob, HRM(20000))
    \/ burn(Admin, HRM(99000000))
    \/ \E c \in Users : createProposal(c)
    \/ \E c \in Users, p \in ProposalIds, s \in BOOLEAN : vote(c, p, s)
    \/ \E c \in Users, p \in ProposalIds : executeProposal(c, p)
    \/ AdvanceTime(MaxTime)

SpecGov == Init /\ [][NextGov]_vars

\* ------------------------------------------------------------ insurance
ClaimAmounts == {Zero, HRM(500), HRM(600)}

NextDisaster ==
    \/ \E c \in Users : allowances[c][DM] = Zero /\ approve(c, DM, HRM(500))
    \/ \E c \in Users : insuranceFund = Zero /\ depositInsuranceFund(c, HRM(500))
    \/ \E c \in Users : reportDisaster(c, 0)
    \/ \E c \in Users, r \in ReportIds, v \in BOOLEAN : verifyDisaster(c, r, v)
    \/ \E c \in {Alice, Bob}, p \in {0, 1}, r \in ReportIds, a \in {Zero, HRM(500)} :
           submitClaim(c, p, r, a)
    \/ \E c \in Users, i \in ClaimIds, s \in ClaimStatus, a \in ClaimAmounts :
           processClaim(c, i, s, a)
    \/ \E c \in Users : authorizeReporter(c, Alice)
    \/ \E c \in Users : revokeReporter(c, Alice)
    \/ \E c \in {Admin, Bob} : transferOwnership(DM, c, Alice)

SpecDisaster == Init /\ [][NextDisaster]_vars

\* ------------------------------------------- every operation moving HRM
\* The calls that move no HRM (listing, verification, the disaster report,
\* the claim, the approvals) are made first and in one order; the calls
\* that move HRM then interleave freely, on small amounts, one account
\* being funded by one of the mint functions.
LedgerSetup ==
    IF propertyCount = 0 THEN listProperty(Alice, HRM(300), 300)
    ELSE IF ~properties[0].isActive THEN verifyProperty(Admin, 0)
    ELSE IF disasterReportCount = 0 THEN reportDisaster(Admin, 0)
    ELSE IF ~disasterReports[1].verified THEN verifyDisaster(Admin, 1, TRUE)
    ELSE IF insuranceClaimCount = 0 THEN submitClaim(Alice, 0, 1, HRM(500))
    ELSE IF allowances[Bob][Alice] = Zero THEN approve(Bob, Alice, HRM(400))
    ELSE IF allowances[Bob][PT] = Zero THEN approve(Bob, PT, HRM(500))
    ELSE IF allowances[Bob][DM] = Zero THEN approve(Bob, DM, HRM(600))
    ELSE IF allowances[Bob][WHRM] = Zero THEN approve(Bob, WHRM, HRM(300))
    ELSE allowances[Alice][PT] = Zero /\ approve(Alice, PT, HRM(150))

LedgerReady == allowances[Alice][PT] # Zero

LedgerMints == {HRM(600), HRM(800), PUBLIC_MINT_AMOUNT}

NextLedger ==
    \/ LedgerSetup
    \/ LedgerReady /\ totalSupply = INITIAL_SUPPLY /\ mint(Alice, Bob, HRM(600))
    \/ LedgerReady /\ totalSupply = INITIAL_SUPPLY /\ publicMint(Bob)
    \/ LedgerReady /\ totalSupply = INITIAL_SUPPLY /\ mintAmount(Bob, HRM(800))
    \/ LedgerReady /\ Sub(totalSupply, INITIAL_SUPPLY) \in LedgerMints
          /\ burn(Bob, HRM(100))
    \/ LedgerReady /\ balances[Admin] = INITIAL_SUPPLY /\ transfer(Admin, PT, HRM(1000))
    \/ LedgerReady /\ transferFrom(Alice, Bob, Alice, HRM(300))
    \/ LedgerReady /\ purchaseTokens(Bob, 0, 200)
    \/ LedgerReady /\ createSellOrder(Bob, 0, 100, HRM(1), 1)
    \/ LedgerReady /\ buyFromOrder(Alice, 0, 100)
    \/ LedgerReady /\ distributeRentalIncome(Admin, 0, HRM(999))
    \/ LedgerReady /\ insuranceFund = Zero /\ depositInsuranceFund(Bob, HRM(500))
    \/ LedgerReady /\ \E a \in {HRM(300), HRM(600)} :
          processClaim(Admin, 1, APPROVED, a)
    \/ LedgerReady /\ \E a \in {Zero, HRM(250)} : wrap(Bob, a)
    \/ LedgerReady /\ \E c \in {Alice, Bob}, a \in {Zero, HRM(250)} : unwrap(c, a)
    \/ LedgerReady /\ \E to \in {Alice, ZERO} : WHRM_transfer(Bob, to, HRM(250))
    \/ LedgerReady /\ WHRM_transferFrom(Alice, Bob, Alice, HRM(250))
    \/ LedgerReady /\ wrappedAllowances[Bob][Alice] = Zero
          /\ \E s \in {Alice, ZERO} : WHRM_approve(Bob, s, HRM(250))
    \/ LedgerReady /\ wrappedAllowances[Bob][Alice] = Zero
          /\ \E s \in {Alice, ZERO} : WHRM_increaseAllowance(Bob, s, HRM(250))
    \/ LedgerReady /\ \E s \in {Alice, ZERO} : WHRM_decreaseAllowance(Bob, s, HRM(250))

SpecLedger == Init /\ [][NextLedger]_vars

\* ------------------------------------------------------------ the pool
\* Two depositors: alice is funded by the admin, bob by a public mint.
PoolDeposits == {Zero, HRM(1000), PUBLIC_MINT_AMOUNT}
PoolWithdrawals == {HRM(1000), PUBLIC_MINT_AMOUNT}

NextPool ==
    \/ balances[Alice] = Zero /\ transfer(Admin, Alice, HRM(1000))
    \/ totalSupply = INITIAL_SUPPLY /\ publicMint(Bob)
    \/ allowances[Alice][Pool] = Zero /\ approve(Alice, Pool, HRM(1000))
    \/ allowances[Bob][Pool] = Zero /\ approve(Bob, Pool, PUBLIC_MINT_AMOUNT)
    \/ \E c \in {Alice, Bob}, a \in PoolDeposits :
           userInfo[c].hrmDeposited = Zero /\ depositHRM(c, a)
    \/ \E c \in {Alice, Bob}, a \in PoolWithdrawals : withdrawHRM(c, a)
    \/ \E c \in {Alice, Bob} : claimRewards(c)
    \/ \E c \in {Admin, Alice} : updateRewardRate(c, 2 * REWARD_RATE)
    \/ \E c \in {Admin, Bob} : transferOwnership(Pool, c, Alice)
    \/ AdvanceTime(MaxTime)

SpecPool == Init /\ [][NextPool]_vars
\* ============================================================ properties
\* A step is a successful call of `op` when the receipt it leaves says so.
Calls(op) == lastTx'.op = op /\ lastTx'.ok

\* ------------------------------------------------------------------ C1
\* The holding of an order's seller for the order's property.
SellerHolding(orderId) ==
    investments[sellOrders[orderId].propertyId][sellOrders[orderId].seller].tokensOwned

FillWithinHolding ==
    Calls("buyFromOrder") =>
        LET orderId == lastTx'.args[1]
            tokensToBuy == lastTx'.args[2]
            order == sellOrders[orderId]
        IN /\ tokensToBuy <= SellerHolding(orderId)
           /\ investments'[order.propertyId][order.seller].tokensOwned
                  = SellerHolding(orderId) - tokensToBuy

NoFillBeyondHolding ==
    \A c \in Users, o \in OrderIds, n \in OrderAmounts :
        (o < sellOrderCounter /\ n > SellerHolding(o)) => ~BuyOk(c, o, n)

\* C1: order over-commit.  Whatever orders a seller has open, every
\* successful buyFromOrder takes at most the seller's tokensOwned at that
\* moment and lowers it by exactly the amount bought, and no buyFromOrder
\* asking for more than the seller's remaining tokensOwned can succeed; so
\* two orders that together exceed the holding are never both filled from it.
C1_OrderOverCommit == [][FillWithinHolding]_vars /\ []NoFillBeyondHolding

\* Two orders of one seller on one property, one filled completely, the
\* other still open for more than the seller has left, and a fill refused.
C1_Witness ==
    \E i \in OrderIds, j \in OrderIds :
        /\ i # j /\ i < sellOrderCounter /\ j < sellOrderCounter
        /\ sellOrders[i].seller = sellOrders[j].seller
        /\ sellOrders[i].propertyId = sellOrders[j].propertyId
        /\ sellOrders[i].tokensForSale = 0
        /\ sellOrders[j].isActive
        /\ sellOrders[j].tokensForSale > SellerHolding(j)
        /\ lastTx.op = "buyFromOrder" /\ ~lastTx.ok

\* ------------------------------------------------------------------ C2
\* C2: conservation.  In every state reached by mint, publicMint,
\* mintAmount, burn, transfer, transferFrom, purchaseTokens, buyFromOrder,
\* distributeRentalIncome, depositInsuranceFund and processClaim calls, the
\* HRM balances of all accounts, the contracts' own included, add up to
\* totalSupply.
C2_Conservation == SumBalances = totalSupply

\* After a burn, a transferFrom, a filled order, a distribution (its
\* remainder resting in the registry) and a paid claim.
C2_Witness ==
    /\ totalSupply # INITIAL_SUPPLY
    /\ Sub(totalSupply, INITIAL_SUPPLY) \notin LedgerMints
    /\ allowances[Bob][Alice] = HRM(100)
    /\ sellOrderCounter > 0 /\ sellOrders[0].tokensForSale = 0
    /\ balances[PT] # Zero /\ Gt(HRM(10), balances[PT])
    /\ insuranceClaims[1].status = PAID
    /\ balances[DM] = insuranceFund

\* ------------------------------------------------------------------ C3
FailedPurchaseChangesNothing ==
    (lastTx'.op = "purchaseTokens" /\ ~lastTx'.ok) =>
        UNCHANGED <<balances, allowances, totalSupply, properties, investments,
                    propertyInvestors, investorProperties>>

PurchaseOnlyWhenAllowed ==
    Calls("purchaseTokens") =>
        LET buyer == lastTx'.caller
            propertyId == lastTx'.args[1]
            tokens == lastTx'.args[2]
            cost == Mul(properties[propertyId].tokenPrice, tokens)
        IN /\ propertyId < propertyCount
           /\ properties[propertyId].isActive
           /\ tokens > 0
           /\ tokens <= properties[propertyId].availableTokens
           /\ Geq(cost, MIN_INVESTMENT)
           /\ Geq(balances[buyer], cost)
           /\ Geq(allowances[buyer][PT], cost)
           /\ ~paused

\* C3: purchase atomicity.  A purchaseTokens call made while the property
\* is missing or inactive, tokens is zero or above availableTokens, the
\* cost is below MIN_INVESTMENT, the buyer's balance or allowance is below
\* the cost, or the token is paused, does not succeed; and a purchaseTokens
\* call that fails leaves every HRM balance, the property records, every
\* Investment and both investor index lists as they were.
C3_PurchaseAtomicity ==
    [][FailedPurchaseChangesNothing /\ PurchaseOnlyWhenAllowed]_vars

\* A purchase refused on a property that is active and partly sold.
C3_Witness ==
    /\ lastTx.op = "purchaseTokens" /\ ~lastTx.ok
    /\ propertyCount = 1
    /\ properties[0].isActive
    /\ properties[0].availableTokens < properties[0].totalTokens
    /\ \E a \in Users : allowances[a][PT] # Zero /\ balances[a] # Zero /\ paused

\* ------------------------------------------------------------------ C4
\* A step that is a successful purchaseTokens or buyFromOrder.
Sale == Calls("purchaseTokens") \/ Calls("buyFromOrder")

\* Its cost: tokens * tokenPrice, or tokensToBuy * pricePerToken.
SaleCost ==
    IF lastTx'.op = "purchaseTokens"
    THEN Mul(properties[lastTx'.args[1]].tokenPrice, lastTx'.args[2])
    ELSE Mul(sellOrders[lastTx'.args[1]].pricePerToken, lastTx'.args[2])

\* Its payee: the property owner, or the order's seller.
SalePayee ==
    IF lastTx'.op = "purchaseTokens"
    THEN properties[lastTx'.args[1]].propertyOwner
    ELSE sellOrders[lastTx'.args[1]].seller

SaleFee == Div(Mul(SaleCost, platformFeePercent), 10000)

SaleNet == Sub(SaleCost, SaleFee)

\* The three balance changes of the claim.
SaleSplit ==
    /\ Add(SaleFee, SaleNet) = SaleCost
    /\ balances'[lastTx'.caller] = Sub(balances[lastTx'.caller], SaleCost)
    /\ balances'[feeRecipient] = Add(balances[feeRecipient], SaleFee)
    /\ balances'[SalePayee] = Add(balances[SalePayee], SaleNet)

DistinctRoles ==
    /\ lastTx'.caller # feeRecipient
    /\ lastTx'.caller # SalePayee
    /\ feeRecipient # SalePayee

\* C4 as stated: fee split exactness for every successful purchaseTokens or
\* buyFromOrder, whichever accounts are the buyer, the fee recipient and
\* the payee.
C4_FeeSplitAnyRoles == [][Sale => SaleSplit]_vars

\* C4, amended: for every successful purchaseTokens or buyFromOrder of cost
\* C, with fee = floor(C * platformFeePercent / 10000) and net = C - fee,
\* fee + net = C, and when the buyer, the fee recipient and the payee are
\* three different accounts the buyer's balance falls by C, the fee
\* recipient's rises by fee and the payee's rises by net.
C4_FeeSplitDistinctRoles ==
    [][Sale => (Add(SaleFee, SaleNet) = SaleCost
                /\ (DistinctRoles => SaleSplit))]_vars

\* An order filled between three different accounts, with a fee that the
\* floor division rounded (100 tokens at a third of an HRM, 2.5%).
C4_Witness ==
    /\ lastTx.op = "buyFromOrder" /\ lastTx.ok
    /\ lastTx.args[2] = 100
    /\ platformFeePercent = INITIAL_FEE_PERCENT
    /\ LET cost == Mul(sellOrders[lastTx.args[1]].pricePerToken, 100)
       IN Mul(FeeOf(cost), FEE_DENOMINATOR) # Mul(cost, platformFeePercent)
    /\ lastTx.caller # feeRecipient
    /\ lastTx.caller # sellOrders[lastTx.args[1]].seller
    /\ feeRecipient # sellOrders[lastTx.args[1]].seller

\* ------------------------------------------------------------------ C5
\* A successful executeProposal on a proposal with the given tallies,
\* while totalSupply is 1,000,000 HRM.
ExecutesWith(votesFor, votesAgainst) ==
    /\ Calls("executeProposal")
    /\ totalSupply = HRM(1000000)
    /\ proposals[lastTx'.args[1]].votesFor = votesFor
    /\ proposals[lastTx'.args[1]].votesAgainst = votesAgainst

\* C5: governance quorum.  With totalSupply = 1,000,000, executeProposal
\* records passed = false for votesFor = 60,000 and votesAgainst = 20,000,
\* and passed = true for votesFor = 90,000 and votesAgainst = 20,000 (the
\* quorum being 10% of totalSupply).
C5_Quorum ==
    [][/\ ExecutesWith(HRM(60000), HRM(20000))
           => ~proposals'[lastTx'.args[1]].passed
       /\ ExecutesWith(HRM(90000), HRM(20000))
           => proposals'[lastTx'.args[1]].passed]_vars

\* ------------------------------------------------------------------ C6
\* What the step pays to an account other than the registry.
Paid(a) == Sub(balances'[a], balances[a])

IncomeShares ==
    Calls("distributeRentalIncome") =>
        LET propertyId == lastTx'.args[1]
            totalIncome == lastTx'.args[2]
            sold == properties[propertyId].totalTokens
                        - properties[propertyId].availableTokens
        IN /\ \A a \in Users :
                  /\ Geq(balances'[a], balances[a])
                  /\ Paid(a) =
                         IF investments[propertyId][a].tokensOwned > 0
                         THEN Div(Mul(totalIncome,
                                      investments[propertyId][a].tokensOwned), sold)
                         ELSE Zero
           /\ Geq(balances[PT], balances'[PT])
           /\ Geq(totalIncome, Sub(balances[PT], balances'[PT]))
           /\ Sub(balances[PT], balances'[PT])
                  = Add(Add(Paid(Admin), Paid(Alice)), Paid(Bob))
           /\ (totalIncome = Wei(1000) /\ sold = 300) =>
                  \A a \in Users :
                      /\ investments[propertyId][a].tokensOwned = 200
                             => Paid(a) = Wei(666)
                      /\ investments[propertyId][a].tokensOwned = 100
                             => Paid(a) = Wei(333)

\* C6: income distribution bound.  A successful distributeRentalIncome pays
\* each investor holding tokens floor(totalIncome * tokensOwned / sold),
\* sold being totalTokens - availableTokens, pays each once, pays nobody
\* else, and pays out at most totalIncome in all; 1000 base units over
\* holdings of 200 and 100 pay 666 and 333.
C6_IncomeDistribution == [][IncomeShares]_vars

\* 1000 base units distributed over holdings of 200 and 100, one base unit
\* staying behind.
C6_Witness ==
    /\ lastTx.op = "distributeRentalIncome" /\ lastTx.ok
    /\ lastTx.args[2] = Wei(1000)
    /\ \E a \in Users, b \in Users :
           /\ investments[0][a].tokensOwned = 200
           /\ investments[0][b].tokensOwned = 100
    /\ balances[PT] = Sub(IncomeFund, Wei(999))

\* ------------------------------------------------------------------ C7
ApprovedClaimIsPaid ==
    (Calls("processClaim") /\ lastTx'.args[2] = APPROVED /\ lastTx'.args[3] # Zero) =>
        LET claimId == lastTx'.args[1]
            approvedAmount == lastTx'.args[3]
            claimant == insuranceClaims[claimId].claimant
        IN /\ insuranceClaims[claimId].status = PENDING
           /\ Geq(insuranceFund, approvedAmount)
           /\ insuranceClaims'[claimId].status = PAID
           /\ insuranceFund' = Sub(insuranceFund, approvedAmount)
           /\ balances'[claimant] = Add(balances[claimant], approvedAmount)

\* The owner's call goes through whenever these conditions hold.
ApprovalGoesThrough ==
    \A claimId \in ClaimIds, approvedAmount \in ClaimAmounts :
        (/\ validClaim(claimId)
         /\ insuranceClaims[claimId].status = PENDING
         /\ approvedAmount # Zero
         /\ Geq(insuranceFund, approvedAmount)
         /\ ~paused)
            => ProcessOk(owner[DM], claimId, APPROVED, approvedAmount)

\* C7: insurance claim collapse.  processClaim(claimId, APPROVED,
\* approvedAmount) by the owner on a pending claim, with approvedAmount > 0
\* and insuranceFund >= approvedAmount, goes through, leaves the claim PAID,
\* lowers insuranceFund by approvedAmount and raises the claimant's HRM
\* balance by approvedAmount.
C7_ClaimCollapse == [][ApprovedClaimIsPaid]_vars /\ []ApprovalGoesThrough

\* A claim approved for 500 out of a fund of 500.
C7_Witness ==
    /\ lastTx.op = "processClaim" /\ lastTx.ok
    /\ lastTx.args[2] = APPROVED /\ lastTx.args[3] = HRM(500)
    /\ insuranceClaims[1].status = PAID
    /\ insuranceFund = Zero

\* ------------------------------------------------------------------ C8
\* A call made while the token is paused.
WhilePaused(op) == paused /\ lastTx'.op = op

\* C8: pause scope.  While the token is paused, transfer and transferFrom
\* fail, and a publicMint or publicMintTo that stays within the cap, a burn
\* within the caller's balance and an approve still succeed.
C8_PauseScope ==
    [][/\ (WhilePaused("transfer") \/ WhilePaused("transferFrom")) => ~lastTx'.ok
       /\ WhilePaused("approve") => lastTx'.ok
       /\ ((WhilePaused("publicMint") \/ WhilePaused("publicMintTo"))
               /\ Geq(MAX_SUPPLY, Add(totalSupply, PUBLIC_MINT_AMOUNT))) => lastTx'.ok
       /\ (WhilePaused("burn")
               /\ \A a \in {Alice, Bob} : Geq(balances[a], PUBLIC_MINT_AMOUNT))
              => lastTx'.ok]_vars

\* ------------------------------------------------------------------ C9
\* The step changes something reserved to the admin of contract `this`.
AdminEffect(this) ==
    \/ /\ this = PT
       /\ \/ \E p \in PropertyIds :
                 properties'[p].isVerified /\ ~properties[p].isVerified
          \/ platformFeePercent' # platformFeePercent
          \/ feeRecipient' # feeRecipient
    \/ /\ this = DM
       /\ \E c \in ClaimIds :
              /\ validClaim(c)
              /\ insuranceClaims[c].status = PENDING
              /\ insuranceClaims'[c].status # PENDING
    \/ /\ this = Gov
       /\ \E p \in ProposalIds : proposals'[p].executed /\ ~proposals[p].executed
    \/ /\ this = Token
       /\ paused' # paused

\* C9: admin-only operations.  Only a call by the admin (the owner of the
\* contract concerned) makes a property verified, takes a claim out of PENDING, makes a
\* proposal executed, pauses or unpauses the token, or changes the fee
\* configuration; such a call by any other account fails and changes nothing.
C9_AdminOnly ==
    [][\A this \in Contracts : AdminEffect(this) => lastTx'.caller = owner[this]]_vars

\* ----------------------------------------------------------------- C10
\* C10: supply cap.  Every mint, publicMint, publicMintTo, mintAmount and
\* mintAmountTo that would take totalSupply above MAX_SUPPLY fails, and in
\* every reachable state totalSupply <= MAX_SUPPLY.
C10_SupplyCap ==
    /\ Geq(MAX_SUPPLY, totalSupply)
    /\ \A amount \in TokenMintInputs, to \in Addresses :
           Gt(Add(totalSupply, amount), MAX_SUPPLY) => ~MintOk(to, amount)

\* The supply at the cap and a mint refused there.
C10_Witness ==
    /\ totalSupply = MAX_SUPPLY
    /\ ~paused
    /\ ~lastTx.ok
    /\ lastTx.op \in {"mint", "publicMint", "publicMintTo", "mintAmount",
                      "mintAmountTo"}

\* ----------------------------------------------------------------- C11
\* The cost of `tokens` tokens of a property.
CostOf(propertyId, tokens) == Mul(properties[propertyId].tokenPrice, tokens)

\* A well-formed amount: what no subtraction below zero gives.
IsAmount(a) ==
    /\ \A i \in 1 .. Len(a) : a[i] \in 0 .. (Base - 1)
    /\ a # <<>> => a[Len(a)] # 0

NothingNegative ==
    /\ \A a \in Addresses : IsAmount(balances[a])
    /\ \A p \in PropertyIds, a \in Addresses : investments[p][a].tokensOwned >= 0
    /\ \A p \in PropertyIds :
           /\ properties[p].availableTokens >= 0
           /\ properties[p].availableTokens <= properties[p].totalTokens

OverdrawFails ==
    /\ \A c \in Users, p \in PropertyIds, n \in OrderAmounts :
           (n > properties[p].availableTokens \/ Gt(CostOf(p, n), balances[c]))
               => ~PurchaseOk(c, p, n)
    /\ \A c \in Users, o \in OrderIds, n \in OrderAmounts :
           (o < sellOrderCounter
            /\ (n > SellerHolding(o)
                \/ Gt(Mul(sellOrders[o].pricePerToken, n), balances[c])))
               => ~BuyOk(c, o, n)

\* C11: no negative balances.  In every reachable state every HRM balance
\* is a uint256 amount (no subtraction has gone below zero), every
\* Investment.tokensOwned and every availableTokens is at least zero,
\* availableTokens is at most totalTokens, and a purchase or an order fill
\* that would take one of them below zero does not succeed.
C11_NoNegative == NothingNegative /\ OverdrawFails

\* A purchase refused for lack of available tokens, next to a seller who
\* has sold a whole holding.
C11_Witness ==
    /\ lastTx.op = "purchaseTokens" /\ ~lastTx.ok
    /\ properties[0].isActive
    /\ properties[0].availableTokens = 100
    /\ \E a \in Users : Geq(balances[a], HRM(200)) /\ Geq(allowances[a][PT], HRM(200))
    /\ \E a \in Users :
           investments[0][a].investor = a /\ investments[0][a].tokensOwned = 0

\* ----------------------------------------------------------------- C12
\* The step lists property p.
Lists(p) == p = propertyCount /\ propertyCount' = propertyCount + 1

Lifecycle ==
    \A p \in PropertyIds :
        /\ Lists(p) => (~properties'[p].isActive /\ ~properties'[p].isVerified)
        /\ (properties'[p].isActive # properties[p].isActive
            \/ properties'[p].isVerified # properties[p].isVerified)
               => /\ Calls("verifyProperty") /\ lastTx'.args[1] = p
                  /\ properties'[p].isActive /\ properties'[p].isVerified
        /\ properties[p].isVerified =>
               properties'[p] = [properties[p] EXCEPT
                                    !.availableTokens = properties'[p].availableTokens]
        /\ p < propertyCount =>
               properties'[p].availableTokens <= properties[p].availableTokens

\* C12: property lifecycle.  A property is listed inactive and unverified;
\* only a successful verifyProperty changes isActive or isVerified, and it
\* sets both; a verified property keeps every field but availableTokens
\* from then on, so it stays active and verified; and the availableTokens
\* of a listed property never increases.
C12_PropertyLifecycle == [][Lifecycle]_vars

\* A verified property, partly sold, after a purchase.
C12_Witness ==
    /\ lastTx.op = "purchaseTokens" /\ lastTx.ok
    /\ properties[0].isVerified /\ properties[0].isActive
    /\ properties[0].availableTokens < properties[0].totalTokens

\* ----------------------------------------------------------------- C13
\* The step is a successful verifyProperty of a property already verified.
VerifiesAgain ==
    /\ Calls("verifyProperty")
    /\ properties[lastTx'.args[1]].isVerified

SecondVerifyChangesNothing ==
    VerifiesAgain =>
        UNCHANGED <<tokenVars, sideVars, registryVars, orderVars, govVars,
                    disasterVars, poolVars, now>>

\* The owner's verifyProperty is accepted on a verified property.
VerifiedStaysVerifiable ==
    \A p \in PropertyIds :
        properties[p].isVerified => OnlyOwner(PT, owner[PT]) /\ propertyExists(p)

\* C13: idempotent verify.  verifyProperty by the owner on a property that
\* is already verified is accepted, and the step changes no balance, no
\* allowance, no property record, no investment, no order and no other
\* contract state.
C13_IdempotentVerify ==
    [][SecondVerifyChangesNothing]_vars /\ []VerifiedStaysVerifiable

\* verifyProperty succeeded on a property that has sold tokens, which only
\* a verified property can have.
C13_Witness ==
    /\ lastTx.op = "verifyProperty" /\ lastTx.ok
    /\ properties[0].availableTokens < properties[0].totalTokens
    /\ investments[0][Alice].tokensOwned > 0

\* ----------------------------------------------------------------- C14
TriedAmounts == {0, 50, 100, 200, 300, 301}

PurchaseRefused ==
    \A c \in Users \cup {Admin} : \A p \in PropertyIds : \A n \in TriedAmounts :
        (\/ ~properties[p].isActive
         \/ n > properties[p].availableTokens
         \/ Gt(MIN_INVESTMENT, CostOf(p, n))
         \/ Gt(CostOf(p, n), balances[c]))
            => ~PurchaseOk(c, p, n)

UnverifiedIsUnsold ==
    \A p \in PropertyIds :
        ~properties[p].isVerified =>
            /\ properties[p].availableTokens = properties[p].totalTokens
            /\ \A a \in Addresses : investments[p][a].tokensOwned = 0

\* C14: purchaseTokens failure conditions.  purchaseTokens is refused when
\* the property is inactive, when tokens exceeds availableTokens, when
\* tokens * tokenPrice is below MIN_INVESTMENT, and when the buyer's balance
\* is below that cost; a property that is not verified has sold nothing and
\* nobody holds a token of it.
C14_PurchaseRefusals == PurchaseRefused /\ UnverifiedIsUnsold

\* A purchase was refused on a listed, unverified property while a user
\* had the balance and the allowance to pay for it.
C14_Witness ==
    /\ lastTx.op = "purchaseTokens" /\ ~lastTx.ok
    /\ propertyCount = 1
    /\ ~properties[0].isVerified
    /\ properties[0].tokenPrice = HRM(1)
    /\ \E a \in Users : Geq(balances[a], HRM(200)) /\ Geq(allowances[a][PT], HRM(200))

\* ----------------------------------------------------------------- C15
RegistryKeepsNothing ==
    (Sale /\ feeRecipient # PT /\ SalePayee # PT)
        => balances'[PT] = balances[PT]

\* C15: funds never rest in the registry.  Across a successful
\* purchaseTokens or buyFromOrder whose fee recipient and payee (property
\* owner or seller) are not the PropertyToken contract, the contract's own
\* HRM balance is the same after the call as before it.
C15_RegistryPassThrough == [][RegistryKeepsNothing]_vars

\* An order fill with a fee went through while the contract held HRM.
C15_Witness ==
    /\ lastTx.op = "buyFromOrder" /\ lastTx.ok
    /\ balances[PT] # Zero
    /\ feeRecipient # PT
    /\ FeeOf(Mul(sellOrders[lastTx.args[1]].pricePerToken, lastTx.args[2])) # Zero

\* ----------------------------------------------------------------- C16
FillAmounts == {100, 200, 300}

BuyRefused ==
    \A c \in Users : \A o \in OrderIds : \A n \in FillAmounts :
        LET order == sellOrders[o] IN
        /\ ~order.isActive => ~BuyOk(c, o, n)
        /\ o < sellOrderCounter =>
              ((\/ now > order.expiresAt
                \/ n > order.tokensForSale
                \/ c = order.seller
                \/ investments[order.propertyId][order.seller].tokensOwned < n)
                   => ~BuyOk(c, o, n))

FailedBuyChangesNothing ==
    (lastTx'.op = "buyFromOrder" /\ ~lastTx'.ok) =>
        UNCHANGED <<tokenVars, sideVars, registryVars, orderVars, govVars,
                    disasterVars, poolVars, now>>

\* C16: buyFromOrder failure conditions.  buyFromOrder is refused when the
\* order is inactive, when the time is past expiresAt, when tokensToBuy
\* exceeds tokensForSale, when the caller is the seller, and when the
\* seller's tokensOwned for the order's property is below tokensToBuy; a
\* refused buyFromOrder changes nothing.
C16_BuyRefusals == [][FailedBuyChangesNothing]_vars /\ []BuyRefused

\* A fill was refused while order 0 was active but expired, its seller still
\* held the tokens on offer, and another account could have paid for them.
C16_Witness ==
    LET order == sellOrders[0] IN
    /\ lastTx.op = "buyFromOrder" /\ ~lastTx.ok
    /\ sellOrderCounter > 0
    /\ order.isActive
    /\ now > order.expiresAt
    /\ investments[order.propertyId][order.seller].tokensOwned >= order.tokensForSale
    /\ \E c \in Users \ {order.seller} :
           /\ Geq(balances[c], Mul(order.pricePerToken, order.tokensForSale))
           /\ Geq(allowances[c][PT], Mul(order.pricePerToken, order.tokensForSale))

\* ----------------------------------------------------------------- C17
\* The members of a list.
Members(list) == {list[i] : i \in 1 .. Len(list)}

BuyEffects ==
    Calls("buyFromOrder") =>
        LET buyer == lastTx'.caller
            o == lastTx'.args[1]
            n == lastTx'.args[2]
            order == sellOrders[o]
            p == order.propertyId
            cost == Mul(order.pricePerToken, n)
            fee == Div(Mul(cost, platformFeePercent), 10000)
        IN
        /\ allowances'[buyer][PT] =
               IF allowances[buyer][PT] = MaxUint256 THEN MaxUint256
               ELSE Sub(allowances[buyer][PT], cost)
        /\ balances'[buyer] =
               Add(Sub(balances[buyer], cost),
                   IF feeRecipient = buyer THEN fee ELSE Zero)
        /\ investments'[p][order.seller].tokensOwned =
               investments[p][order.seller].tokensOwned - n
        /\ investments'[p][buyer].tokensOwned = investments[p][buyer].tokensOwned + n
        /\ investments'[p][buyer].investor = buyer
        /\ buyer \in Members(propertyInvestors'[p])
        /\ p \in Members(investorProperties'[buyer])
        /\ IF investments[p][buyer].investor = ZERO
           THEN /\ propertyInvestors'[p] = Append(propertyInvestors[p], buyer)
                /\ investorProperties'[buyer] = Append(investorProperties[buyer], p)
           ELSE UNCHANGED <<propertyInvestors, investorProperties>>
        /\ sellOrders'[o].tokensForSale = order.tokensForSale - n
        /\ sellOrders'[o].isActive = (sellOrders'[o].tokensForSale # 0)
        /\ \A q \in PropertyIds :
               properties'[q].availableTokens = properties[q].availableTokens

\* C17: buyFromOrder effects.  A successful buyFromOrder(orderId, n) pulls
\* n * pricePerToken from the buyer (the buyer's allowance to the contract,
\* unless it is unlimited, falls by that amount, and so does the buyer's
\* balance, less the fee when the buyer is also the fee recipient), takes n from the seller's
\* tokensOwned, adds n to the buyer's tokensOwned with the investor record
\* and both index lists created when absent, takes n from the order's
\* tokensForSale, leaves the order active exactly when tokensForSale is not
\* 0, and leaves every availableTokens unchanged.
C17_BuyEffects == [][BuyEffects]_vars

\* An order was filled completely by a buyer whose whole holding comes from
\* that fill, while the seller keeps part of theirs.
C17_Witness ==
    /\ lastTx.op = "buyFromOrder" /\ lastTx.ok
    /\ LET order == sellOrders[lastTx.args[1]] IN
       /\ ~order.isActive /\ order.tokensForSale = 0
       /\ investments[order.propertyId][lastTx.caller].tokensOwned = lastTx.args[2]
       /\ investments[order.propertyId][order.seller].tokensOwned > 0

\* ----------------------------------------------------------------- C18
CreateRefused ==
    \A c \in Users : \A p \in PropertyIds : \A n \in FillAmounts :
        \A d \in 0 .. (MAX_DURATION_DAYS + 1) :
            (\/ investments[p][c].tokensOwned < n
             \/ d < 1
             \/ d > 90)
                => \A q \in OrderPrices : ~CreateOrderOk(c, p, n, q, d)

CreateEffects ==
    Calls("createSellOrder") =>
        LET o == sellOrderCounter
            order == sellOrders'[o]
        IN
        /\ sellOrderCounter' = o + 1
        /\ order.isActive
        /\ order.seller = lastTx'.caller
        /\ order.propertyId = lastTx'.args[1]
        /\ order.tokensForSale = lastTx'.args[2]
        /\ order.pricePerToken = lastTx'.args[3]
        /\ order.createdAt = now
        /\ order.expiresAt = order.createdAt + lastTx'.args[4]
        /\ \A q \in OrderIds \ {o} : sellOrders'[q] = sellOrders[q]
        /\ UNCHANGED <<investments, properties, balances, allowances,
                       propertyInvestors, investorProperties>>

\* C18: createSellOrder does not escrow.  createSellOrder is refused when
\* the seller's tokensOwned is below tokensForSale and when durationDays is
\* outside 1..90; a successful createSellOrder stores an active order under
\* the id sellOrderCounter, with createdAt the current day and expiresAt =
\* createdAt + durationDays, and changes no investment, no property (so no
\* availableTokens) and no HRM balance.
C18_CreateNoEscrow == [][CreateEffects]_vars /\ []CreateRefused

\* A second order was created, after some days, by a seller whose holding
\* is smaller than the two orders together.
C18_Witness ==
    /\ lastTx.op = "createSellOrder" /\ lastTx.ok
    /\ sellOrderCounter = 2
    /\ now > 0
    /\ sellOrders[0].seller = sellOrders[1].seller
    /\ sellOrders[0].isActive /\ sellOrders[1].isActive
    /\ investments[0][sellOrders[1].seller].tokensOwned
           < sellOrders[0].tokensForSale + sellOrders[1].tokensForSale

\* ----------------------------------------------------------------- C19
CancelOnlyByParty ==
    Calls("cancelSellOrder") =>
        LET order == sellOrders[lastTx'.args[1]] IN
        /\ lastTx'.caller = order.seller \/ lastTx'.caller = owner[PT]
        /\ order.isActive
        /\ ~sellOrders'[lastTx'.args[1]].isActive

InactiveIsTerminal ==
    \A o \in OrderIds :
        (o < sellOrderCounter /\ ~sellOrders[o].isActive) =>
            /\ sellOrders'[o] = sellOrders[o]
            /\ ~(Calls("buyFromOrder") /\ lastTx'.args[1] = o)
            /\ ~(Calls("cancelSellOrder") /\ lastTx'.args[1] = o)

\* C19: cancel and order terminality.  cancelSellOrder succeeds only for
\* the order's seller or the owner and only on an active order, which it
\* makes inactive; an order that is inactive, by cancellation or by a
\* complete fill, stays as it is in every later step (never active again,
\* tokensForSale never changed), and no buyFromOrder or cancelSellOrder on
\* it succeeds.
C19_CancelTerminal == [][CancelOnlyByParty /\ InactiveIsTerminal]_vars

\* Both kinds of terminal order exist, one cancelled with tokens left and
\* one filled to 0, and a later fill was refused.
C19_Witness ==
    /\ lastTx.op = "buyFromOrder" /\ ~lastTx.ok
    /\ sellOrderCounter = 2
    /\ \E o1, o2 \in OrderIds :
           /\ ~sellOrders[o1].isActive /\ sellOrders[o1].tokensForSale > 0
           /\ ~sellOrders[o2].isActive /\ sellOrders[o2].tokensForSale = 0
           /\ now <= sellOrders[o1].expiresAt

\* ----------------------------------------------------------------- C20
VoteRefused ==
    \A c \in Users : \A p \in ProposalIds :
        p <= proposalCount =>
            ((\/ now > proposals[p].endTime
              \/ votes[p][c].hasVoted
              \/ Gt(MIN_VOTING_POWER, balances[c]))
                 => ~VoteOk(c, p))

VoteEffects ==
    Calls("vote") =>
        LET c == lastTx'.caller
            p == lastTx'.args[1]
            support == lastTx'.args[2]
            power == balances[c]
        IN
        /\ votes'[p][c] = [hasVoted |-> TRUE, support |-> support,
                           votingPower |-> power]
        /\ proposals'[p].votesFor =
               Add(proposals[p].votesFor, IF support THEN power ELSE Zero)
        /\ proposals'[p].votesAgainst =
               Add(proposals[p].votesAgainst, IF support THEN Zero ELSE power)

\* A recorded vote is never written again.
VoteIsKept ==
    \A p \in ProposalIds : \A c \in Users :
        votes[p][c].hasVoted => votes'[p][c] = votes[p][c]

\* What account c's recorded vote adds to the tally of side s.
Counted(p, c, s) ==
    IF votes[p][c].hasVoted /\ votes[p][c].support = s
    THEN votes[p][c].votingPower ELSE Zero

TalliesAreRecordedVotes ==
    \A p \in ProposalIds :
        /\ proposals[p].votesFor =
               Add(Add(Counted(p, Admin, TRUE), Counted(p, Alice, TRUE)),
                   Counted(p, Bob, TRUE))
        /\ proposals[p].votesAgainst =
               Add(Add(Counted(p, Admin, FALSE), Counted(p, Alice, FALSE)),
                   Counted(p, Bob, FALSE))

\* C20: one vote per account per proposal.  vote is refused after endTime,
\* for a caller who has already voted on the proposal, and for a caller
\* whose balance is below MIN_VOTING_POWER; a successful vote records the
\* caller's balance at that moment as votingPower and adds that amount to
\* votesFor or to votesAgainst according to support; a recorded vote is
\* never rewritten, and each tally is the sum of the votingPower recorded
\* for the accounts that voted on that side, each counted once.
C20_OneVote ==
    [][VoteEffects /\ VoteIsKept]_vars /\ [](VoteRefused /\ TalliesAreRecordedVotes)

\* A vote was refused while voting was open and every account held enough
\* to vote: each of them had already voted.
C20_Witness ==
    /\ lastTx.op = "vote" /\ ~lastTx.ok
    /\ proposalCount = 1
    /\ now <= proposals[1].endTime
    /\ \A c \in Users : votes[1][c].hasVoted /\ Geq(balances[c], MIN_VOTING_POWER)
    /\ proposals[1].votesFor # Zero /\ proposals[1].votesAgainst # Zero

\* ----------------------------------------------------------------- C21
ExecuteRefused ==
    \A c \in Users : \A p \in ProposalIds :
        p <= proposalCount =>
            ((now <= proposals[p].endTime \/ proposals[p].executed)
                 => ~ExecuteOk(c, p))

ExecuteEffects ==
    Calls("executeProposal") =>
        LET p == lastTx'.args[1]
            totalVotes == Add(proposals[p].votesFor, proposals[p].votesAgainst)
            quorum == Div(Mul(totalSupply, QUORUM_PERCENTAGE), 100)
        IN
        /\ now > proposals[p].endTime
        /\ ~proposals[p].executed
        /\ proposals'[p].executed
        /\ proposals'[p].passed =
               (Geq(totalVotes, quorum)
                /\ Gt(proposals[p].votesFor, proposals[p].votesAgainst))

ExecutedStays ==
    \A p \in ProposalIds :
        proposals[p].executed =>
            /\ proposals'[p].executed
            /\ ~(Calls("executeProposal") /\ lastTx'.args[1] = p)

\* C21: execute once, after the window.  executeProposal is refused while
\* now <= endTime and on a proposal already executed; a successful
\* executeProposal sets executed and sets passed to (votesFor +
\* votesAgainst >= quorum and votesFor > votesAgainst), the quorum being
\* totalSupply * QUORUM_PERCENTAGE / 100; an executed proposal is never
\* executed again and executed never returns to false.
C21_ExecuteOnce == [][ExecuteEffects /\ ExecutedStays]_vars /\ []ExecuteRefused

\* After the voting period, a second executeProposal was refused on a
\* proposal that had been executed and had passed.
C21_Witness ==
    /\ lastTx.op = "executeProposal" /\ ~lastTx.ok
    /\ proposalCount = 1
    /\ now > proposals[1].endTime
    /\ proposals[1].executed /\ proposals[1].passed

\* ----------------------------------------------------------------- C22
ProcessRefused ==
    \A c \in Users : \A i \in ClaimIds : \A s \in ClaimStatus : \A a \in ClaimAmounts :
        i <= insuranceClaimCount =>
            ((\/ insuranceClaims[i].status # PENDING
              \/ (s = APPROVED /\ a # Zero /\ Gt(a, insuranceFund)))
                 => ~ProcessOk(c, i, s, a))

FailedProcessChangesNothing ==
    (lastTx'.op = "processClaim" /\ ~lastTx'.ok) =>
        UNCHANGED <<insuranceClaims, insuranceFund, balances, allowances,
                    totalSupply, disasterReports, insuranceClaimCount>>

\* C22: processClaim failure conditions.  processClaim is refused on a
\* claim that is not PENDING, and with status APPROVED and approvedAmount
\* > 0 it is refused when insuranceFund < approvedAmount; a refused
\* processClaim leaves every claim (status and approvedAmount), the
\* insuranceFund and every HRM balance as they were, so a claim refused
\* for lack of funds is still PENDING.
C22_ProcessRefusals == [][FailedProcessChangesNothing]_vars /\ []ProcessRefused

\* A processClaim was refused while claim 1 was PENDING and the fund,
\* though not empty, was smaller than an amount that was asked for.
C22_Witness ==
    /\ lastTx.op = "processClaim" /\ ~lastTx.ok
    /\ insuranceClaimCount = 1
    /\ insuranceClaims[1].status = PENDING
    /\ insuranceFund # Zero
    /\ \E a \in ClaimAmounts : Gt(a, insuranceFund)

\* ----------------------------------------------------------------- C23
SubmitRefused ==
    \A p \in {0, 1} : \A r \in 0 .. (MaxReports + 1) : \A a \in {Zero, HRM(500)} :
        (\/ ~validReport(r)
         \/ ~disasterReports[r].verified
         \/ disasterReports[r].propertyId # p
         \/ a = Zero)
            => ~SubmitOk(p, r, a)

ClaimsReferToVerifiedReports ==
    \A i \in ClaimIds :
        i <= insuranceClaimCount =>
            LET r == insuranceClaims[i].disasterReportId IN
            /\ validReport(r)
            /\ disasterReports[r].verified
            /\ disasterReports[r].propertyId = insuranceClaims[i].propertyId

\* C23: claims reference verified reports.  submitClaim is refused unless
\* the report exists, is verified and has the claim's propertyId and
\* claimAmount is positive; and in every state, also when a claim has been
\* processed and paid, every claim's disasterReportId names an existing
\* report that is verified and belongs to the claim's property.
C23_ClaimsOnVerifiedReports == SubmitRefused /\ ClaimsReferToVerifiedReports

\* ----------------------------------------------------------------- C24
\* C24: sell order price consistency.  In every state every sell order has
\* totalPrice = tokensForSale * pricePerToken, also after a partial
\* buyFromOrder has reduced tokensForSale.
C24_OrderPriceConsistent ==
    \A o \in OrderIds :
        sellOrders[o].totalPrice =
            Mul(sellOrders[o].pricePerToken, sellOrders[o].tokensForSale)

\* ----------------------------------------------------------------- C25
\* The tokens of property p held by investors, and the tokens sold.
RECURSIVE CountOver(_, _)
CountOver(f, S) ==
    IF S = {} THEN 0
    ELSE LET x == CHOOSE y \in S : TRUE IN f[x] + CountOver(f, S \ {x})

Held(p) == CountOver([a \in Addresses |-> investments[p][a].tokensOwned], Addresses)
Sold(p) == properties[p].totalTokens - properties[p].availableTokens

SharesConserved ==
    \A p \in PropertyIds :
        /\ Held(p) = Sold(p)
        /\ Sold(p) = 0 => propertyInvestors[p] = <<>>

\* What the step adds to account a's holding of property p.
Gain(p, a) == investments'[p][a].tokensOwned - investments[p][a].tokensOwned

SharesMoveOnlyBySale ==
    \A p \in PropertyIds :
        IF Calls("purchaseTokens") /\ lastTx'.args[1] = p
        THEN /\ properties'[p].availableTokens =
                    properties[p].availableTokens - lastTx'.args[2]
             /\ \A a \in Addresses :
                    Gain(p, a) = IF a = lastTx'.caller THEN lastTx'.args[2] ELSE 0
        ELSE IF Calls("buyFromOrder") /\ sellOrders[lastTx'.args[1]].propertyId = p
        THEN /\ properties'[p].availableTokens = properties[p].availableTokens
             /\ \A a \in Addresses :
                    Gain(p, a) =
                        IF a = lastTx'.caller THEN lastTx'.args[2]
                        ELSE IF a = sellOrders[lastTx'.args[1]].seller
                        THEN 0 - lastTx'.args[2]
                        ELSE 0
        ELSE /\ \A a \in Addresses : Gain(p, a) = 0
             /\ p < propertyCount => Sold(p)' = Sold(p)

\* C25: share conservation per property.  In every state, for every
\* property, the tokensOwned of all accounts add up to totalTokens -
\* availableTokens, and that difference (the divisor of
\* distributeRentalIncome) is 0 only when the property's investor list is
\* empty; purchaseTokens moves n tokens from availableTokens to the buyer,
\* buyFromOrder moves n tokens from the seller to the buyer, and no other
\* step changes any holding or the sold amount.
C25_ShareConservation == [][SharesMoveOnlyBySale]_vars /\ []SharesConserved

\* After an order fill the property has two holders and unsold tokens.
C25_Witness ==
    /\ lastTx.op = "buyFromOrder" /\ lastTx.ok
    /\ properties[0].availableTokens > 0
    /\ \E a, b \in Users :
           /\ a # b
           /\ investments[0][a].tokensOwned > 0
           /\ investments[0][b].tokensOwned > 0
    /\ Len(propertyInvestors[0]) >= 2

\* ----------------------------------------------------------------- C26
\* C26: no token unit is counted twice on a proposal.  In every state, for
\* every proposal, votesFor + votesAgainst is at most the HRM totalSupply,
\* also when HRM is transferred between the votes of one voting period.
C26_NoDoubleCount ==
    \A p \in ProposalIds :
        Geq(totalSupply, Add(proposals[p].votesFor, proposals[p].votesAgainst))

\* The same bound while no HRM has been burned.
VotesWithinUnburnedSupply ==
    Geq(totalSupply, INITIAL_SUPPLY) => C26_NoDoubleCount

\* ----------------------------------------------------------------- C27
TalliesFrozen ==
    \A p \in ProposalIds :
        proposals[p].executed =>
            /\ proposals'[p].votesFor = proposals[p].votesFor
            /\ proposals'[p].votesAgainst = proposals[p].votesAgainst
            /\ proposals'[p].passed = proposals[p].passed
            /\ votes'[p] = votes[p]
            /\ ~(Calls("vote") /\ lastTx'.args[1] = p)

\* Execution comes after the window, voting within it, and time only grows.
WindowsAreDisjoint ==
    /\ now' >= now
    /\ \A p \in ProposalIds :
           /\ proposals[p].executed => now > proposals[p].endTime
           /\ p <= proposalCount => proposals'[p].endTime = proposals[p].endTime

\* C27: tallies are frozen at execution.  vote needs now <= endTime,
\* executeProposal needs now > endTime, endTime is never rewritten and time
\* never decreases; so on an executed proposal no vote succeeds, and its
\* votesFor, votesAgainst and passed never change again.
C27_FrozenAtExecution == [][TalliesFrozen /\ WindowsAreDisjoint]_vars

\* A vote was refused on an executed proposal by an account that holds
\* enough to vote and has not voted on it.
C27_Witness ==
    /\ lastTx.op = "vote" /\ ~lastTx.ok
    /\ proposalCount = 1
    /\ proposals[1].executed
    /\ Add(proposals[1].votesFor, proposals[1].votesAgainst) # Zero
    /\ \A c \in Users : ~votes[1][c].hasVoted => Geq(balances[c], MIN_VOTING_POWER)
    /\ \E c \in Users : ~votes[1][c].hasVoted

\* ----------------------------------------------------------------- C28
FundIsBacked == Geq(balances[DM], insuranceFund)

FundMovesWithBalance ==
    /\ Calls("depositInsuranceFund") =>
           /\ insuranceFund' = Add(insuranceFund, lastTx'.args[1])
           /\ balances'[DM] = Add(balances[DM], lastTx'.args[1])
    /\ (Calls("processClaim") /\ lastTx'.args[2] = APPROVED /\ lastTx'.args[3] # Zero) =>
           /\ insuranceFund' = Sub(insuranceFund, lastTx'.args[3])
           /\ balances'[DM] = Sub(balances[DM], lastTx'.args[3])
    /\ Gt(balances[DM], balances'[DM]) =>
           Sub(insuranceFund, insuranceFund') = Sub(balances[DM], balances'[DM])

\* C28: the insurance fund is backed.  In every state insuranceFund is at
\* most the DisasterManagement contract's HRM balance; depositInsuranceFund
\* raises both by the amount, a paying processClaim lowers both by
\* approvedAmount, and every step that lowers the contract's balance lowers
\* insuranceFund by as much.
C28_FundBacked == [][FundMovesWithBalance]_vars /\ []FundIsBacked

\* A claim was paid out of a fund that is not used up.
C28_Witness ==
    /\ lastTx.op = "processClaim" /\ lastTx.ok
    /\ insuranceClaims[1].status = PAID
    /\ insuranceFund # Zero
    /\ balances[DM] # Zero

\* ----------------------------------------------------------------- C29
BecomesPaid(i) ==
    insuranceClaims[i].status # PAID /\ insuranceClaims'[i].status = PAID

PaidOnlyByPayout ==
    \A i \in ClaimIds :
        BecomesPaid(i) =>
            LET amount == insuranceClaims'[i].approvedAmount
                claimant == insuranceClaims[i].claimant
            IN
            /\ Calls("processClaim") /\ lastTx'.args[1] = i
            /\ amount # Zero
            /\ insuranceFund' = Sub(insuranceFund, amount)
            /\ balances'[claimant] = Add(balances[claimant], amount)

\* A paid claim is never paid again.
PaidAtMostOnce ==
    \A i \in ClaimIds :
        insuranceClaims[i].status = PAID =>
            ~(Calls("processClaim") /\ lastTx'.args[1] = i)

\* C29: paid means paid out.  A claim becomes PAID only in a processClaim
\* step that takes the claim's approvedAmount (> 0) from insuranceFund and
\* gives it to the claimant, whatever arguments processClaim is called
\* with; and a claim that is PAID is never processed again, so a claimant
\* is paid at most once per claim.
C29_PaidMeansPaidOut == [][PaidOnlyByPayout /\ PaidAtMostOnce]_vars

\* ----------------------------------------------------------------- C30
Deposited == SumOver([a \in Addresses |-> userInfo[a].hrmDeposited], Addresses)

TotalIsSumOfDeposits == poolInfo.totalHRMDeposited = Deposited

\* C30: pool solvency.  In every state poolInfo.totalHRMDeposited is the
\* sum of userInfo.hrmDeposited over all users and the pool's HRM balance
\* is at least totalHRMDeposited, so that after any interleaving of
\* depositHRM, withdrawHRM and claimRewards every depositor can withdraw
\* the whole of hrmDeposited.
C30_PoolSolvent ==
    /\ TotalIsSumOfDeposits
    /\ Geq(balances[Pool], poolInfo.totalHRMDeposited)
    /\ \A a \in Users : Geq(balances[Pool], userInfo[a].hrmDeposited)

====
